---- MODULE Spec2Model ----
(***************************************************************************)
(* SF Muni tracker: the browser client's sync loop and the server's        *)
(* predictions and vehicles endpoints (public/script.js).                  *)
(*                                                                         *)
(* Client state: the stop cache, the stop-selection modal, the committed   *)
(* stops, the three fetching tasks with their requests in flight, the      *)
(* clock, the map with its vehicle markers and the line filter.  Server    *)
(* state: the schema load and the handlers of the requests received, each  *)
(* with its upstream calls and the responses it sent.  One action per      *)
(* event handler or per continuation after an await.                       *)
(*                                                                         *)
(* Strings that the code inspects character by character (stop ids, the    *)
(* text of the modal's input) are sequences of one-character strings.      *)
(***************************************************************************)
EXTENDS Integers, Sequences, FiniteSets, TLC

VARIABLES
    allStops,            \* script.js:12   Map stop id -> details
    currentStopType,     \* script.js:14   "null" | "inbound" | "outbound"
    currentStops,        \* script.js:21   committed stop id per direction
    modalDisplay,        \* modal.style.display
    stopInput,           \* stopInput.value
    saveBtnDisabled,     \* saveBtn.disabled
    validationMsg,       \* validationMsg.className / textContent
    stopLabel,           \* textContent of #inbound-stop / #outbound-stop
    stopLocation,        \* textContent of #inbound-location / #outbound-location
    selectedTrainLines,  \* script.js:135
    pagePhase,           \* position of initializePage
    timers,              \* the setInterval registrations that are armed
    initialRun,          \* the tasks initializePage has executed
    predInFlight,        \* predictions requests awaiting their response
    predDisplay,         \* #inbound-predictions / #outbound-predictions
    updateTime,          \* textContent of #update-time
    weatherInFlight,     \* weather requests awaiting their response
    weatherDisplay,      \* #current-temp, #current-conditions, #forecast
    mapPhase,            \* position of initializeMap
    mapLoaded,           \* script.js:443
    vehInFlight,         \* vehicles requests awaiting their response
    markers,             \* script.js:491
    vehErrorLogged,      \* the console holds "Error fetching vehicle positions:"
    plotInFlight,        \* train-routes.json requests of fetchAndPlotStops
    plottedLines,        \* lines of the features of the 'train-stops' layer
    protoLoad,           \* script.js:975  position of the schema loader
    FeedMessage,         \* script.js:974  "undefined" | "type"
    predHandlers,        \* the server's /api/predictions handlers, by arrival
    vehHandlers,         \* the server's /api/vehicles handlers, by arrival
    callStopData,        \* the argument of a call of extractPredictions
    callResult           \* what that call returned

vars == << allStops, currentStopType, currentStops, modalDisplay, stopInput,
           saveBtnDisabled, validationMsg, stopLabel, stopLocation,
           selectedTrainLines, pagePhase, timers, initialRun, predInFlight,
           predDisplay, updateTime, weatherInFlight, weatherDisplay, mapPhase,
           mapLoaded, vehInFlight, markers, vehErrorLogged, plotInFlight,
           plottedLines, protoLoad, FeedMessage, predHandlers, vehHandlers,
           callStopData, callResult >>

\* ------------------------------------------------------------------ bounds

\* Requests of one task that may be outstanding at once.
MaxInFlight == 2

\* /api/predictions requests the server handles in one behaviour.
MaxPredictionsRequests == 2

\* /api/vehicles requests the server handles in one behaviour.
MaxVehiclesRequests == 3

\* Visits in one stop-monitoring delivery passed to extractPredictions.
MaxVisits == 3

\* ------------------------------------------------------- program constants

trainLines == << "J", "K", "L", "M", "N", "T" >>

LineSet == { trainLines[i] : i \in DOMAIN trainLines }

Directions == { "inbound", "outbound" }

S15779 == << "1", "5", "7", "7", "9" >>
S15780 == << "1", "5", "7", "8", "0" >>
S13911 == << "1", "3", "9", "1", "1" >>
S99999 == << "9", "9", "9", "9", "9" >>

defaultStops == [ inbound |-> S15779, outbound |-> S15780 ]

Tasks == { "predictions", "weather", "vehicles", "clock" }

\* ---------------------------------------------------------- stop cache

\* The static dataset as /train-routes.json serves it.  A route whose
\* stops member is no array has stopsIsArray FALSE.
Stop(id, name) == [ id |-> id, name |-> name, lat |-> "lat", long |-> "long" ]

Route(line, stops) == [ line |-> line, stopsIsArray |-> TRUE, stops |-> stops ]

BadRoute(line) == [ line |-> line, stopsIsArray |-> FALSE, stops |-> << >> ]

DatasetFull ==
    << Route("K", << Stop(S15779, "West Portal Station"),
                     Stop(S15780, "West Portal Station OB") >>),
       Route("L", << Stop(S13911, "Taraval St & 22nd Ave"),
                     Stop(S99999, "") >>) >>

\* Without the default stops; its stop is listed on two lines.
DatasetNoDefaults ==
    << Route("L", << Stop(S13911, "Taraval St & 22nd Ave") >>),
       Route("M", << Stop(S13911, "Taraval St & 22nd Ave") >>) >>

DatasetBroken ==
    << Route("K", << Stop(S15779, "West Portal Station") >>),
       BadRoute("L"),
       Route("M", << Stop(S13911, "Taraval St & 22nd Ave") >>) >>

Datasets == { DatasetFull, DatasetNoDefaults, DatasetBroken }

EmptyMap == [ k \in {} |-> 0 ]

MapSet(m, key, value) ==
    [ k \in DOMAIN m \cup { key } |-> IF k = key THEN value ELSE m[k] ]

MapHas(m, key) == key \in DOMAIN m

\* The body of the inner forEach: a stop without id or without name is skipped.
SetStop(m, line, stop) ==
    IF stop.id # << >> /\ stop.name # ""
    THEN MapSet(m, stop.id,
                [ name |-> stop.name, line |-> line,
                  lat |-> stop.lat, long |-> stop.long ])
    ELSE m

RECURSIVE SetStops(_, _, _, _)
SetStops(m, line, stops, i) ==
    IF i > Len(stops) THEN m
    ELSE SetStops(SetStop(m, line, stops[i]), line, stops, i + 1)

\* data.routes.forEach(...): route.stops.forEach throws on a route whose stops
\* is no array; the catch keeps what was set before.
RECURSIVE SetRoutes(_, _, _)
SetRoutes(m, routes, i) ==
    IF i > Len(routes) THEN m
    ELSE IF ~routes[i].stopsIsArray THEN m
    ELSE SetRoutes(SetStops(m, routes[i].line, routes[i].stops, 1), routes, i + 1)

\* allStops.get(key): NoDetails stands for undefined.
NoDetails == [ name |-> "undefined", line |-> "undefined",
               lat |-> "undefined", long |-> "undefined" ]

MapGet(m, key) == IF MapHas(m, key) THEN m[key] ELSE NoDetails

\* A validation that takes every non-empty id for a stop.
validateStopNonEmpty(m, stopId) ==
    [ isValid |-> stopId # << >>, details |-> MapGet(m, stopId) ]

\* validateStop(stopId)
validateStop(m, stopId) ==
    [ isValid |-> MapGet(m, stopId) # NoDetails, details |-> MapGet(m, stopId) ]

\* ------------------------------------------------------------- strings

\* The characters String.prototype.trim strips: the WhiteSpace and the
\* LineTerminator code points.  Those a string literal cannot hold are
\* written by their code point.
WhiteSpace ==
    { " ", "\t", "\n", "\r", "\f", "U+000B", "U+00A0", "U+FEFF", "U+1680",
      "U+2000", "U+2001", "U+2002", "U+2003", "U+2004", "U+2005", "U+2006",
      "U+2007", "U+2008", "U+2009", "U+200A", "U+2028", "U+2029", "U+202F",
      "U+205F", "U+3000" }

IsSpace(c) == c \in WhiteSpace

RECURSIVE TrimStart(_)
TrimStart(s) ==
    IF s # << >> /\ IsSpace(Head(s)) THEN TrimStart(Tail(s)) ELSE s

RECURSIVE TrimEnd(_)
TrimEnd(s) ==
    IF s # << >> /\ IsSpace(s[Len(s)]) THEN TrimEnd(SubSeq(s, 1, Len(s) - 1)) ELSE s

\* String.prototype.trim
Trim(s) == TrimEnd(TrimStart(s))

\* Removes the first occurrence of the token: String.prototype.replace with a
\* string pattern, on a text kept as a sequence of tokens.
RECURSIVE ReplaceFirst(_, _)
ReplaceFirst(tokens, token) ==
    IF tokens = << >> THEN << >>
    ELSE IF Head(tokens) = token THEN Tail(tokens)
    ELSE << Head(tokens) >> \o ReplaceFirst(Tail(tokens), token)

\* ------------------------------------------------------- predictions

MsPerMinute == 60000

HalfMinuteMs == 30000

\* An optional text of the upstream payload: undefined, or its tokens.
Undefined == [ defined |-> FALSE, tokens |-> << >> ]

Text(tokens) == [ defined |-> TRUE, tokens |-> tokens ]

\* JavaScript truthiness of an optional text: undefined and "" are falsy.
Truthy(t) == t.defined /\ t.tokens # << >>

\* One MonitoredStopVisit.  etaKind: "missing" (no ExpectedArrivalTime),
\* "time" (etaMs = arrival - now, in ms) or "invalid" (no parseable time).
Visit(journey, call, etaKind, etaMs, destDisplay, destName, atStop) ==
    [ journey |-> journey, call |-> call, etaKind |-> etaKind, etaMs |-> etaMs,
      destDisplay |-> destDisplay, destName |-> destName, atStop |-> atStop ]

\* A rounding towards zero, as of Math.trunc(ms / 60000).
TruncMinutes(ms) ==
    IF ms >= 0 THEN ms \div MsPerMinute ELSE 0 - ((0 - ms) \div MsPerMinute)

\* Math.round(ms / 60000): to the nearest integer, halves towards +infinity.
RoundMinutes(ms) == (ms + HalfMinuteMs) \div MsPerMinute

NoPrediction ==
    [ kept |-> FALSE, minutes |-> 0, isNaN |-> FALSE, destination |-> Undefined,
      atStop |-> FALSE ]

\* A callback that takes a visit without arrival time for one arriving now.
MapVisitKeepsNoTime(v) ==
    IF ~v.journey \/ ~v.call THEN NoPrediction
    ELSE IF v.etaKind = "time" /\ RoundMinutes(v.etaMs) < 0 THEN NoPrediction
    ELSE [ kept |-> TRUE,
           minutes |-> IF v.etaKind = "time" THEN RoundMinutes(v.etaMs) ELSE 0,
           isNaN |-> v.etaKind = "invalid",
           destination |-> IF Truthy(v.destDisplay) THEN v.destDisplay ELSE v.destName,
           atStop |-> v.atStop = "true" ]

\* The callback of visits.map: NoPrediction stands for null.
MapVisit(v) ==
    IF ~v.journey \/ ~v.call \/ v.etaKind = "missing" THEN NoPrediction
    ELSE IF v.etaKind = "time" /\ RoundMinutes(v.etaMs) < 0 THEN NoPrediction
    ELSE [ kept |-> TRUE,
           minutes |-> IF v.etaKind = "time" THEN RoundMinutes(v.etaMs) ELSE 0,
           isNaN |-> v.etaKind = "invalid",
           destination |-> IF Truthy(v.destDisplay) THEN v.destDisplay ELSE v.destName,
           atStop |-> v.atStop = "true" ]

RECURSIVE MapFilter(_)
MapFilter(visits) ==
    IF visits = << >> THEN << >>
    ELSE (IF MapVisit(Head(visits)).kept THEN << MapVisit(Head(visits)) >> ELSE << >>)
         \o MapFilter(Tail(visits))

\* Stable insertion of p into a list sorted by minutes.
RECURSIVE InsertSorted(_, _)
InsertSorted(sorted, p) ==
    IF sorted = << >> THEN << p >>
    ELSE IF p.minutes < Head(sorted).minutes THEN << p >> \o sorted
    ELSE << Head(sorted) >> \o InsertSorted(Tail(sorted), p)

RECURSIVE StableSort(_, _)
StableSort(sorted, rest) ==
    IF rest = << >> THEN sorted
    ELSE StableSort(InsertSorted(sorted, Head(rest)), Tail(rest))

Reorderings(s) ==
    { [ i \in 1..Len(s) |-> s[f[i]] ] :
        f \in { g \in [ 1..Len(s) -> 1..Len(s) ] :
                  \A i, j \in 1..Len(s) : g[i] = g[j] => i = j } }

\* .sort((a, b) => a.minutes - b.minutes): a stable sort when every minutes is
\* a number; with a NaN among them the comparator is inconsistent and the
\* order is the implementation's choice.
SortOutcomes(preds) ==
    IF \E i \in 1..Len(preds) : preds[i].isNaN
    THEN Reorderings(preds)
    ELSE { StableSort(<< >>, preds) }

\* One stop's member of the server's response.  container: "missing" (no
\* MonitoredStopVisit on the path), "list" or "notList".
StopData(stopName, container, visits) ==
    [ stopName |-> stopName, container |-> container, visits |-> visits ]

\* extractPredictions(stopData): the set of arrays it can return.
extractPredictions(stopData) ==
    IF stopData.container = "list" THEN SortOutcomes(MapFilter(stopData.visits))
    ELSE { << >> }

\* formatMinutes(minutes)
formatMinutes(p) ==
    IF p.isNaN THEN << "NaN", " mins" >>
    ELSE IF p.minutes = 0 THEN << "Arriving" >>
    ELSE << ToString(p.minutes), IF p.minutes = 1 THEN " min" ELSE " mins" >>

\* createPredictionElement throws on a prediction without destination.
ElementThrows(p) == ~p.destination.defined

createPredictionElement(p) ==
    [ destination |-> ReplaceFirst(ReplaceFirst(p.destination.tokens, " Station"), "Metro "),
      status |-> IF p.atStop THEN << "At Stop" >> ELSE formatMinutes(p),
      atStop |-> p.atStop ]

\* A predictions region of the page.
RegionHtml == [ kind |-> "html", stopName |-> << >>, items |-> << >> ]

RegionError == [ kind |-> "error", stopName |-> << >>, items |-> << >> ]

\* updatePredictionsDisplay(data, elementId): the region's content when no
\* element throws.
RegionOf(stopName, preds) ==
    IF preds = << >>
    THEN [ kind |-> "noPredictions", stopName |-> stopName, items |-> << >> ]
    ELSE [ kind |-> "predictions", stopName |-> stopName,
           items |-> [ i \in 1..Len(preds) |-> createPredictionElement(preds[i]) ] ]

DisplayThrows(preds) == \E i \in 1..Len(preds) : ElementThrows(preds[i])

\* ------------------------------------------------------ model inputs

\* What the user types into the modal's input.
InputTexts ==
    { << " ", "\t", "1", "3", "9", "1", "1", "\n", "U+00A0" >>,   \* a cached id, padded
      S13911,
      S99999,                                    \* listed without a name
      << "1", "3", " ", "9" >>,
      << " " >>,
      << >> }

Dest(tokens) == Text(tokens)

GoodVisit(ms, tokens, atStop) ==
    Visit(TRUE, TRUE, "time", ms, Dest(tokens), Undefined, atStop)

\* A visit with an arrival time and no destination label at all.
NoDestVisit == Visit(TRUE, TRUE, "time", 240000, Undefined, Undefined, "false")

\* The visit containers the upstream feed answers with, per stop.
PayloadGood ==
    [ container |-> "list",
      visits |-> << GoodVisit(420000, << "Embarcadero", " Station" >>, "false"),
                    GoodVisit(20000, << "Metro ", "Balboa Park" >>, "true") >> ]

PayloadMissing == [ container |-> "missing", visits |-> << >> ]

\* A delivery with a visit that has every member, and one without a label.
PayloadNoDest ==
    [ container |-> "list",
      visits |-> << GoodVisit(120000, << "Embarcadero", " Station" >>, "false"),
                    NoDestVisit >> ]

PredPayloads == { PayloadGood, PayloadMissing, PayloadNoDest }

\* The ways a fetch fails before its data is processed: fetch rejects, the
\* status is not OK, response.json() rejects.
FetchFailures == { "network", "http", "json" }

S17109 == << "1", "7", "1", "0", "9" >>
S16503 == << "1", "6", "5", "0", "3" >>

\* The members every plain object inherits from Object.prototype: the
\* functions, and __proto__, which reads as Object.prototype itself.
InheritedFunctions ==
    { "constructor", "toString", "toLocaleString", "valueOf", "hasOwnProperty",
      "isPrototypeOf", "propertyIsEnumerable", "__defineGetter__",
      "__defineSetter__", "__lookupGetter__", "__lookupSetter__" }

\* The values a lookup in a plain object gives: a text, an inherited
\* function, Object.prototype, or undefined.
JsText(tokens) == [ kind |-> "string", tokens |-> tokens, name |-> "" ]

JsFunction(name) == [ kind |-> "function", tokens |-> << >>, name |-> name ]

JsObjectPrototype == [ kind |-> "object", tokens |-> << >>, name |-> "" ]

JsUndefined == [ kind |-> "undefined", tokens |-> << >>, name |-> "" ]

\* The spelling of the inherited function members, character by character.
InheritedSpelling ==
    ("constructor" :> << "c", "o", "n", "s", "t", "r", "u", "c", "t", "o", "r" >>) @@
    ("toString" :> << "t", "o", "S", "t", "r", "i", "n", "g" >>) @@
    ("toLocaleString" :> << "t", "o", "L", "o", "c", "a", "l", "e", "S", "t", "r", "i", "n", "g" >>) @@
    ("valueOf" :> << "v", "a", "l", "u", "e", "O", "f" >>) @@
    ("hasOwnProperty" :> << "h", "a", "s", "O", "w", "n", "P", "r", "o", "p", "e", "r", "t", "y" >>) @@
    ("isPrototypeOf" :> << "i", "s", "P", "r", "o", "t", "o", "t", "y", "p", "e", "O", "f" >>) @@
    ("propertyIsEnumerable" :> << "p", "r", "o", "p", "e", "r", "t", "y", "I", "s", "E", "n", "u", "m", "e", "r", "a", "b", "l", "e" >>) @@
    ("__defineGetter__" :> << "_", "_", "d", "e", "f", "i", "n", "e", "G", "e", "t", "t", "e", "r", "_", "_" >>) @@
    ("__defineSetter__" :> << "_", "_", "d", "e", "f", "i", "n", "e", "S", "e", "t", "t", "e", "r", "_", "_" >>) @@
    ("__lookupGetter__" :> << "_", "_", "l", "o", "o", "k", "u", "p", "G", "e", "t", "t", "e", "r", "_", "_" >>) @@
    ("__lookupSetter__" :> << "_", "_", "l", "o", "o", "k", "u", "p", "S", "e", "t", "t", "e", "r", "_", "_" >>)

SProto == << "_", "_", "p", "r", "o", "t", "o", "_", "_" >>

\* server: const STOPS = { '17109': ..., '16503': ... }; STOPS[key] also
\* finds the members the object inherits.
StopsGet(key) ==
    IF key = S17109 THEN JsText(<< "Inbound to Downtown" >>)
    ELSE IF key = S16503 THEN JsText(<< "Outbound to Ocean Beach" >>)
    ELSE IF \E n \in InheritedFunctions : InheritedSpelling[n] = key
    THEN JsFunction(CHOOSE n \in InheritedFunctions : InheritedSpelling[n] = key)
    ELSE IF key = SProto THEN JsObjectPrototype
    ELSE JsUndefined

\* Function.prototype.name of an inherited function: Object for constructor.
FunctionName(name) == IF name = "constructor" THEN "Object" ELSE name

\* `${value}`
TemplateText(value) ==
    CASE value.kind = "string" -> value.tokens
      [] value.kind = "function" ->
            << "function ", FunctionName(value.name), "() { [native code] }" >>
      [] value.kind = "object" -> << "[object Object]" >>
      [] OTHER -> << "undefined" >>

\* server: STOPS[stopId] || `Stop #${stopId}`
StopNameOf(stopId) ==
    IF StopsGet(stopId).kind = "undefined" THEN JsText(<< "Stop #" >> \o stopId)
    ELSE StopsGet(stopId)

\* JSON.stringify of an object member, JSON.parse on the page: a function
\* member is left out and reads as undefined, Object.prototype arrives as {}.
JsonMember(value) ==
    IF value.kind = "function" THEN JsUndefined
    ELSE IF value.kind = "object" THEN [ JsObjectPrototype EXCEPT !.kind = "emptyObject" ]
    ELSE value

\* element.textContent = value, read back: undefined clears the text.
TextContent(value) ==
    CASE value.kind = "string" -> value.tokens
      [] value.kind = "undefined" -> << >>
      [] OTHER -> << "[object Object]" >>

\* The heading the page shows for a stop id it asked the server about.
ShownStopName(stopId) == TextContent(JsonMember(StopNameOf(stopId)))

\* The vehicle lists /api/vehicles answers with.  trainId is the route id
\* followed by the vehicle id.
Vehicle(trainId, direction) ==
    [ trainId |-> trainId, direction |-> direction ]

VehK == Vehicle(<< "K", "2", "0", "1" >>, 0)
VehL == Vehicle(<< "L", "7" >>, 1)

VehicleFeeds == { << >>, << VehK >>, << VehL >>, << VehK, VehL >> }

\* The lines whose button the user clicks.
ToggledLines == { "K", "L" }

\* ------------------------------------------------------------ state

modalVars == << currentStopType, modalDisplay, stopInput, saveBtnDisabled,
                validationMsg >>

stopVars == << currentStops, stopLabel, stopLocation >>

predVars == << predInFlight, predDisplay >>

weatherVars == << weatherInFlight, weatherDisplay >>

mapVars == << mapPhase, mapLoaded >>

vehVars == << vehInFlight, markers, vehErrorLogged >>

plotVars == << plotInFlight, plottedLines >>

pageVars == << pagePhase, timers, initialRun >>

serverVars == << protoLoad, FeedMessage, predHandlers, vehHandlers >>

callVars == << callStopData, callResult >>

clientVars == << allStops, modalVars, stopVars, selectedTrainLines, pageVars,
                 predVars, updateTime, weatherVars, mapVars, vehVars, plotVars >>

\* Text the static markup gives an element before any script writes it.
FromMarkup == "html"

MsgCleared == [ className |-> "validation-message", text |-> << >> ]

MsgValid(details) ==
    [ className |-> "validation-message success",
      text |-> << "Valid stop: ", details.name, details.line >> ]

MsgInvalid ==
    [ className |-> "validation-message error",
      text |-> << "Invalid stop ID. Please enter a valid stop ID." >> ]

\* The page once the script has been evaluated: the map's configuration
\* fetch is out, the four intervals are registered, initializePage waits for
\* DOMContentLoaded.
ClientInit ==
    /\ allStops = EmptyMap
    /\ currentStopType = "null"
    /\ currentStops = defaultStops
    /\ modalDisplay = "none"
    /\ stopInput = << >>
    /\ saveBtnDisabled \in BOOLEAN
    /\ validationMsg = MsgCleared
    /\ stopLabel = [ d \in Directions |-> [ written |-> FALSE, stopId |-> << >> ] ]
    /\ stopLocation = [ d \in Directions |-> FromMarkup ]
    /\ selectedTrainLines = EmptyMap
    /\ pagePhase = "waitingDOM"
    /\ timers = Tasks
    /\ initialRun = {}
    /\ predInFlight = << >>
    /\ predDisplay = [ d \in Directions |-> RegionHtml ]
    /\ updateTime = FromMarkup
    /\ weatherInFlight = 0
    /\ weatherDisplay = FromMarkup
    /\ mapPhase = "fetchingConfig"
    /\ mapLoaded = FALSE
    /\ vehInFlight = 0
    /\ markers = << >>
    /\ vehErrorLogged = FALSE
    /\ plotInFlight = 0
    /\ plottedLines = {}

\* The server once its script has been evaluated: the schema load is out,
\* no request has arrived.
ServerInit ==
    /\ protoLoad = "pending"
    /\ FeedMessage = "undefined"
    /\ predHandlers = << >>
    /\ vehHandlers = << >>

\* No call of extractPredictions under examination.
NotCalled == [ returned |-> FALSE, value |-> << >> ]

Init ==
    /\ ClientInit
    /\ ServerInit
    /\ callStopData = StopData(<< >>, "missing", << >>)
    /\ callResult = NotCalled

\* ------------------------------------------------- stop selection modal

\* An opening that leaves the save button and the message as they are.
openStopModalKeepsButton(type) ==
    /\ currentStopType' = type
    /\ modalDisplay' = "block"
    /\ stopInput' = currentStops[type]
    /\ UNCHANGED << saveBtnDisabled, validationMsg >>
    /\ UNCHANGED << serverVars, callVars, allStops, stopVars, selectedTrainLines,
                    pageVars, predVars, updateTime, weatherVars, mapVars, vehVars,
                    plotVars >>

\* openStopModal(type): a click on #inbound-stop or #outbound-stop.
openStopModal(type) ==
    /\ currentStopType' = type
    /\ modalDisplay' = "block"
    /\ stopInput' = currentStops[type]
    /\ saveBtnDisabled' = TRUE
    /\ validationMsg' = MsgCleared
    /\ UNCHANGED << serverVars, callVars, allStops, stopVars, selectedTrainLines, pageVars, predVars,
                    updateTime, weatherVars, mapVars, vehVars, plotVars >>

\* A close that hides the modal and keeps the typed text.
closeModalKeepsInput ==
    /\ modalDisplay' = "none"
    /\ stopInput' = stopInput
    /\ currentStopType' = "null"

\* A close that only hides the modal.
closeModalHidesOnly ==
    /\ modalDisplay' = "none"
    /\ stopInput' = stopInput
    /\ currentStopType' = currentStopType

\* closeModal()
closeModal ==
    /\ modalDisplay' = "none"
    /\ stopInput' = << >>
    /\ currentStopType' = "null"

\* The close button, or a click on the modal's backdrop.  The controls of the
\* modal take user events only while the modal is displayed.
CloseClick ==
    /\ modalDisplay = "block"
    /\ closeModal
    /\ UNCHANGED << serverVars, callVars, allStops, saveBtnDisabled, validationMsg, stopVars,
                    selectedTrainLines, pageVars, predVars, updateTime,
                    weatherVars, mapVars, vehVars, plotVars >>

\* The user edits the input's text.
EditInput(text) ==
    /\ modalDisplay = "block"
    /\ stopInput' = text
    /\ UNCHANGED << serverVars, callVars, allStops, currentStopType, modalDisplay, saveBtnDisabled,
                    validationMsg, stopVars, selectedTrainLines, pageVars,
                    predVars, updateTime, weatherVars, mapVars, vehVars,
                    plotVars >>

\* A validate handler that enters an id it did not find into the cache.
ValidateClickCaching ==
    /\ modalDisplay = "block"
    /\ IF validateStop(allStops, Trim(stopInput)).isValid
       THEN /\ validationMsg' = MsgValid(validateStop(allStops, Trim(stopInput)).details)
            /\ saveBtnDisabled' = FALSE
            /\ allStops' = allStops
       ELSE /\ validationMsg' = MsgInvalid
            /\ saveBtnDisabled' = TRUE
            /\ allStops' = MapSet(allStops, Trim(stopInput),
                                  [ name |-> "", line |-> "",
                                    lat |-> "lat", long |-> "long" ])
    /\ UNCHANGED << serverVars, callVars, currentStopType, modalDisplay, stopInput, stopVars,
                    selectedTrainLines, pageVars, predVars, updateTime,
                    weatherVars, mapVars, vehVars, plotVars >>

\* The validate button's click handler.
ValidateClick ==
    /\ modalDisplay = "block"
    /\ IF validateStop(allStops, Trim(stopInput)).isValid
       THEN /\ validationMsg' = MsgValid(validateStop(allStops, Trim(stopInput)).details)
            /\ saveBtnDisabled' = FALSE
       ELSE /\ validationMsg' = MsgInvalid
            /\ saveBtnDisabled' = TRUE
    /\ UNCHANGED << serverVars, callVars, allStops, currentStopType, modalDisplay, stopInput, stopVars,
                    selectedTrainLines, pageVars, predVars, updateTime,
                    weatherVars, mapVars, vehVars, plotVars >>

\* A fetchPredictions() that sends nothing.
IssueNoPredictions(inFlight, stops) == inFlight

\* A fetchPredictions() that aborts the requests still outstanding.
IssuePredictionsSuperseding(inFlight, stops) ==
    << [ inbound |-> stops.inbound, outbound |-> stops.outbound ] >>

\* fetchPredictions() up to its first await: the request carries the stop ids
\* committed at the call.
IssuePredictions(inFlight, stops) ==
    Append(inFlight, [ inbound |-> stops.inbound, outbound |-> stops.outbound ])

\* A commit that writes the id to both directions.
CommitBothStops(stops, type, stopId) == [ d \in Directions |-> stopId ]

\* currentStops[currentStopType] = stopId: a type that is no key yet
\* becomes one.
CommitStop(stops, type, stopId) ==
    [ k \in DOMAIN stops \cup { type } |-> IF k = type THEN stopId ELSE stops[k] ]

\* The save button's click handler.  A disabled button dispatches no click.
SaveClick ==
    /\ modalDisplay = "block"
    /\ ~saveBtnDisabled
    /\ Len(predInFlight) < MaxInFlight
    /\ IF validateStop(allStops, Trim(stopInput)).isValid
       THEN /\ currentStops' = CommitStop(currentStops, currentStopType, Trim(stopInput))
            /\ stopLabel' = [ stopLabel EXCEPT ![currentStopType] =
                                [ written |-> TRUE, stopId |-> Trim(stopInput) ] ]
            /\ stopLocation' = [ stopLocation EXCEPT ![currentStopType] =
                                   MapGet(allStops, Trim(stopInput)).name ]
            /\ closeModal
            /\ predInFlight' = IssuePredictions(predInFlight, currentStops')
       ELSE UNCHANGED << currentStops, stopLabel, stopLocation, modalDisplay,
                         stopInput, currentStopType, predInFlight >>
    /\ UNCHANGED << serverVars, callVars, allStops, saveBtnDisabled, validationMsg, selectedTrainLines,
                    pageVars, predDisplay, updateTime, weatherVars, mapVars,
                    vehVars, plotVars >>

\* A click event that reaches the save handler while the modal is not
\* displayed.  With a valid id the handler writes currentStops and, when
\* currentStopType is null, throws on the element `null-stop` it does not
\* find; otherwise it runs as it does from the open modal.
SaveWhileClosed ==
    /\ modalDisplay = "none"
    /\ IF validateStop(allStops, Trim(stopInput)).isValid
       THEN /\ currentStops' = CommitStop(currentStops, currentStopType, Trim(stopInput))
            /\ IF currentStopType = "null"
               THEN UNCHANGED << stopLabel, stopLocation, modalDisplay, stopInput,
                                 currentStopType, predInFlight >>
               ELSE /\ Len(predInFlight) < MaxInFlight
                    /\ stopLabel' = [ stopLabel EXCEPT ![currentStopType] =
                                        [ written |-> TRUE, stopId |-> Trim(stopInput) ] ]
                    /\ stopLocation' = [ stopLocation EXCEPT ![currentStopType] =
                                           MapGet(allStops, Trim(stopInput)).name ]
                    /\ closeModal
                    /\ predInFlight' = IssuePredictions(predInFlight, currentStops')
       ELSE UNCHANGED << currentStops, stopLabel, stopLocation, modalDisplay,
                         stopInput, currentStopType, predInFlight >>
    /\ UNCHANGED << serverVars, callVars, allStops, saveBtnDisabled, validationMsg, selectedTrainLines,
                    pageVars, predDisplay, updateTime, weatherVars, mapVars,
                    vehVars, plotVars >>

\* ------------------------------------------------------- predictions task

\* A settling that drops every outstanding request of the task.
SettleAll(inFlight, i) == << >>

\* One request of a task settles: it leaves the requests in flight, the
\* others stay outstanding.
Settle(inFlight, i) ==
    SubSeq(inFlight, 1, i - 1) \o SubSeq(inFlight, i + 1, Len(inFlight))

\* A catch block that writes the placeholder to the inbound region only.
PredictionsErrorInbound(display) ==
    [ display EXCEPT !["inbound"] = RegionError ]

\* The catch block of fetchPredictions.
PredictionsError(display) ==
    [ d \in Directions |-> RegionError ]

\* processApiResponse(data) without a throw: both regions rewritten.
PredictionsShown(display, inbound, outbound) ==
    [ display EXCEPT !["inbound"] = inbound, !["outbound"] = outbound ]

\* setInterval(fetchPredictions, 60000) fires.
PredictionsTick ==
    /\ "predictions" \in timers
    /\ Len(predInFlight) < MaxInFlight
    /\ predInFlight' = IssuePredictions(predInFlight, currentStops)
    /\ UNCHANGED << serverVars, callVars, allStops, modalVars, stopVars, selectedTrainLines, pageVars,
                    predDisplay, updateTime, weatherVars, mapVars, vehVars,
                    plotVars >>

\* The fetch of request i fails before any data is processed.
PredictionsFailure(i) ==
    /\ i \in DOMAIN predInFlight
    /\ \E failure \in FetchFailures :
         /\ predInFlight' = Settle(predInFlight, i)
         /\ predDisplay' = PredictionsError(predDisplay)
    /\ UNCHANGED << serverVars, callVars, allStops, modalVars, stopVars, selectedTrainLines, pageVars,
                    updateTime, weatherVars, mapVars, vehVars, plotVars >>

\* What extractPredictions can return for each upstream payload of the model.
PayloadPredictions ==
    [ p \in PredPayloads |-> extractPredictions(StopData(<< >>, p.container, p.visits)) ]

\* The response of request i arrives with status OK: the server names each
\* stop after the id of the request and passes the upstream delivery on.
PredictionsArrive(i, pin, pout) ==
    /\ i \in DOMAIN predInFlight
    /\ predInFlight' = Settle(predInFlight, i)
    /\ \E predsIn \in PayloadPredictions[pin], predsOut \in PayloadPredictions[pout] :
         IF DisplayThrows(predsIn) \/ DisplayThrows(predsOut)
         THEN /\ predDisplay' = PredictionsError(predDisplay)
              /\ UNCHANGED updateTime
         ELSE /\ predDisplay' = PredictionsShown(predDisplay,
                                    RegionOf(ShownStopName(predInFlight[i].inbound), predsIn),
                                    RegionOf(ShownStopName(predInFlight[i].outbound), predsOut))
              /\ updateTime' = "time"
    /\ UNCHANGED << serverVars, callVars, allStops, modalVars, stopVars, selectedTrainLines, pageVars,
                    weatherVars, mapVars, vehVars, plotVars >>

\* ----------------------------------------------------------- weather task

\* setInterval(fetchWeather, 900000) fires.
WeatherTick ==
    /\ "weather" \in timers
    /\ weatherInFlight < MaxInFlight
    /\ weatherInFlight' = weatherInFlight + 1
    /\ UNCHANGED << serverVars, callVars, allStops, modalVars, stopVars, selectedTrainLines, pageVars,
                    predVars, updateTime, weatherDisplay, mapVars, vehVars,
                    plotVars >>

\* A weather fetch fails, or updateWeatherDisplay throws on its data: the
\* catch block writes the three error texts.
WeatherFailure ==
    /\ weatherInFlight > 0
    /\ weatherInFlight' = weatherInFlight - 1
    /\ weatherDisplay' = "error"
    /\ UNCHANGED << serverVars, callVars, allStops, modalVars, stopVars, selectedTrainLines, pageVars,
                    predVars, updateTime, mapVars, vehVars, plotVars >>

WeatherSuccess ==
    /\ weatherInFlight > 0
    /\ weatherInFlight' = weatherInFlight - 1
    /\ weatherDisplay' = "weather"
    /\ UNCHANGED << serverVars, callVars, allStops, modalVars, stopVars, selectedTrainLines, pageVars,
                    predVars, updateTime, mapVars, vehVars, plotVars >>

\* ------------------------------------------------------------- clock task

\* setInterval(updateTimeDisplay, 1000) fires.
ClockTick ==
    /\ "clock" \in timers
    /\ updateTime' = "time"
    /\ UNCHANGED << serverVars, callVars, allStops, modalVars, stopVars, selectedTrainLines, pageVars,
                    predVars, weatherVars, mapVars, vehVars, plotVars >>

\* ------------------------------------------------- vehicles task and map

\* vehicle.trainId.startsWith(line), line being one character.
StartsWith(trainId, line) == trainId # << >> /\ Head(trainId) = line

\* trainLines.find(line => vehicle.trainId.startsWith(line)), "" when none.
RECURSIVE FindLine(_, _)
FindLine(trainId, i) ==
    IF i > Len(trainLines) THEN ""
    ELSE IF StartsWith(trainId, trainLines[i]) THEN trainLines[i]
    ELSE FindLine(trainId, i + 1)

\* selectedTrainLines[line]: the flag of a line the object has a key of, an
\* inherited member, or "undefined".
SelectedGet(selected, line) ==
    IF line \in DOMAIN selected THEN selected[line]
    ELSE IF line \in InheritedFunctions THEN "function"
    ELSE IF line = "__proto__" THEN "object"
    ELSE "undefined"

\* !selectedTrainLines[line] is false
IsSelectedLine(selected, line) ==
    SelectedGet(selected, line) \notin { "false", "undefined" }

\* !stop.lat || !stop.long is false
HasCoordinates(stop) == stop.lat # "" /\ stop.long # ""

\* The filter of updateMapMarkers: the vehicle's line is known and selected.
IsSelectedVehicle(selected, vehicle) ==
    /\ FindLine(vehicle.trainId, 1) # ""
    /\ SelectedGet(selected, FindLine(vehicle.trainId, 1)) = "true"

RECURSIVE SelectVehicles(_, _)
SelectVehicles(selected, vehicles) ==
    IF vehicles = << >> THEN << >>
    ELSE (IF IsSelectedVehicle(selected, Head(vehicles))
          THEN << Head(vehicles) >> ELSE << >>)
         \o SelectVehicles(selected, Tail(vehicles))

\* A reconciliation that leaves the markers when no vehicle is selected.
updateMapMarkersKeepsStale(old, selected, vehicles) ==
    IF SelectVehicles(selected, vehicles) = << >> THEN old
    ELSE SelectVehicles(selected, vehicles)

\* updateMapMarkers(vehicles): every marker removed, one marker made for
\* each selected vehicle.
updateMapMarkers(old, selected, vehicles) == SelectVehicles(selected, vehicles)

\* A success path that does not ask whether the map is loaded.
MarkersAfterPollUnguarded(old, selected, vehicles, loaded) ==
    IF Len(vehicles) > 0
    THEN updateMapMarkers(old, selected, vehicles)
    ELSE old

\* The success path of fetchVehiclePositions once data.vehicles is there.
MarkersAfterPoll(old, selected, vehicles, loaded) ==
    IF Len(vehicles) > 0 /\ loaded
    THEN updateMapMarkers(old, selected, vehicles)
    ELSE old

\* The catch block of fetchVehiclePositions: it logs to the console, and
\* writes nothing of the page.
MarkersAfterFailure(old) == old

\* setInterval(fetchVehiclePositions, 60000) fires.
VehiclesTick ==
    /\ "vehicles" \in timers
    /\ vehInFlight < MaxInFlight
    /\ vehInFlight' = vehInFlight + 1
    /\ UNCHANGED << serverVars, callVars, allStops, modalVars, stopVars, selectedTrainLines, pageVars,
                    predVars, updateTime, weatherVars, mapVars, markers,
                    vehErrorLogged, plotVars >>

\* A vehicles fetch fails: fetch rejects, the status is not OK, the body is
\* no JSON, or the data has no vehicles member.
VehiclesFailure ==
    /\ vehInFlight > 0
    /\ \E failure \in FetchFailures \cup { "noVehicles" } :
         /\ vehInFlight' = vehInFlight - 1
         /\ markers' = MarkersAfterFailure(markers)
         /\ vehErrorLogged' = TRUE
    /\ UNCHANGED << serverVars, callVars, allStops, modalVars, stopVars, selectedTrainLines, pageVars,
                    predVars, updateTime, weatherVars, mapVars, plotVars >>

\* A vehicles response arrives with status OK and a vehicles list.
VehiclesArrive(vehicles) ==
    /\ vehInFlight > 0
    /\ vehInFlight' = vehInFlight - 1
    /\ markers' = MarkersAfterPoll(markers, selectedTrainLines, vehicles, mapLoaded)
    /\ UNCHANGED vehErrorLogged
    /\ UNCHANGED << serverVars, callVars, allStops, modalVars, stopVars, selectedTrainLines, pageVars,
                    predVars, updateTime, weatherVars, mapVars, plotVars >>

\* initializeMap(): the /api/config fetch settles.  With a configuration the
\* map is created and its load event is awaited; without, the catch logs.
ConfigResponse ==
    /\ mapPhase = "fetchingConfig"
    /\ mapPhase' \in { "created", "failed" }
    /\ UNCHANGED << serverVars, callVars, allStops, modalVars, stopVars, selectedTrainLines, pageVars,
                    predVars, updateTime, weatherVars, mapLoaded, vehVars,
                    plotVars >>

\* The map's load event: mapLoaded is set, the vehicles and the stops are
\* fetched.  (fetchAndDrawRoutes writes only the map's route layers, which
\* are no part of this state.)
MapLoad ==
    /\ mapPhase = "created"
    /\ vehInFlight < MaxInFlight
    /\ plotInFlight < MaxInFlight
    /\ mapPhase' = "loaded"
    /\ mapLoaded' = TRUE
    /\ vehInFlight' = vehInFlight + 1
    /\ plotInFlight' = plotInFlight + 1
    /\ UNCHANGED << serverVars, callVars, allStops, modalVars, stopVars, selectedTrainLines, pageVars,
                    predVars, updateTime, weatherVars, markers, vehErrorLogged,
                    plottedLines >>

\* !selectedTrainLines[line]
Negate(value) == IF value = "true" THEN "false" ELSE "true"

\* toggleTrainLine(line): a click on a line button; the buttons exist once
\* generateTrainLineButtons has run.
toggleTrainLine(line) ==
    /\ pagePhase = "done"
    /\ vehInFlight < MaxInFlight
    /\ plotInFlight < MaxInFlight
    /\ selectedTrainLines' = MapSet(selectedTrainLines, line,
                                    Negate(SelectedGet(selectedTrainLines, line)))
    /\ vehInFlight' = vehInFlight + 1
    /\ plotInFlight' = plotInFlight + 1
    /\ UNCHANGED << serverVars, callVars, allStops, modalVars, stopVars, pageVars, predVars, updateTime,
                    weatherVars, mapVars, markers, vehErrorLogged, plottedLines >>

\* plotTrainStops(routes): the layer is removed, then rebuilt from the
\* selected routes.  A route that is not selected is passed over before its
\* stops are read; a selected route whose stops is no array throws after the
\* removal, and the layer stays removed.
PlottedLines(selected, routes) ==
    IF \E i \in DOMAIN routes : /\ IsSelectedLine(selected, routes[i].line)
                                /\ ~routes[i].stopsIsArray
    THEN {}
    ELSE { routes[i].line : i \in { j \in DOMAIN routes :
                /\ IsSelectedLine(selected, routes[j].line)
                /\ \E k \in DOMAIN routes[j].stops : HasCoordinates(routes[j].stops[k]) } }

\* fetchAndPlotStops(): its fetch of /train-routes.json settles.
PlotResponse ==
    /\ plotInFlight > 0
    /\ plotInFlight' = plotInFlight - 1
    /\ \/ UNCHANGED plottedLines
       \/ \E routes \in Datasets :
            plottedLines' = IF mapLoaded THEN PlottedLines(selectedTrainLines, routes)
                            ELSE plottedLines
       \/ plottedLines' = IF mapLoaded THEN {} ELSE plottedLines
    /\ UNCHANGED << serverVars, callVars, allStops, modalVars, stopVars, selectedTrainLines, pageVars,
                    predVars, updateTime, weatherVars, mapVars, vehVars >>

\* ----------------------------------------------------------- page start

\* DOMContentLoaded: initializePage() runs to its await of loadAllStops().
DOMContentLoaded ==
    /\ pagePhase = "waitingDOM"
    /\ pagePhase' = "loadingStops"
    /\ UNCHANGED << serverVars, callVars, allStops, modalVars, stopVars, selectedTrainLines, timers,
                    initialRun, predVars, updateTime, weatherVars, mapVars,
                    vehVars, plotVars >>

\* loadAllStops() after its fetch: the cache as the dataset fills it.
loadAllStops(m, routes) == SetRoutes(m, routes, 1)

\* The line buttons with one more button, for a line S.
generateButtonsWithShuttle(selected) == [ line \in LineSet \cup { "S" } |-> "true" ]

\* trainLines.forEach(line => { ...; selectedTrainLines[line] = true; })
RECURSIVE SelectLines(_, _)
SelectLines(selected, i) ==
    IF i > Len(trainLines) THEN selected
    ELSE SelectLines(MapSet(selected, trainLines[i], "true"), i + 1)

\* generateTrainLineButtons(): a button for every line, every line selected.
generateTrainLineButtons(selected) == SelectLines(selected, 1)

\* The tasks initializePage() executes once after the cache is loaded.
InitialTasks == { "predictions", "weather", "vehicles" }

\* The rest of initializePage(), with the cache as loadAllStops() left it.
InitializePageRest(cache) ==
    /\ Len(predInFlight) < MaxInFlight
    /\ weatherInFlight < MaxInFlight
    /\ vehInFlight < MaxInFlight
    /\ allStops' = cache
    /\ stopLocation' = [ d \in Directions |->
                           IF MapHas(cache, currentStops[d])
                           THEN cache[currentStops[d]].name
                           ELSE stopLocation[d] ]
    /\ selectedTrainLines' = generateTrainLineButtons(selectedTrainLines)
    /\ predInFlight' = IssuePredictions(predInFlight, currentStops)
    /\ weatherInFlight' = weatherInFlight + 1
    /\ vehInFlight' = vehInFlight + 1
    /\ pagePhase' = "done"
    /\ initialRun' = InitialTasks
    /\ UNCHANGED << serverVars, callVars, modalVars, currentStops, stopLabel,
                    timers, predDisplay, updateTime, weatherDisplay, mapVars,
                    markers, vehErrorLogged, plotVars >>

\* loadAllStops() settles with a dataset.
StopsLoaded(routes) ==
    /\ pagePhase = "loadingStops"
    /\ InitializePageRest(loadAllStops(allStops, routes))

\* A failed load that ends initializePage: nothing after it is run.
StopsLoadFailedAborts ==
    /\ pagePhase = "loadingStops"
    /\ pagePhase' = "done"
    /\ UNCHANGED << serverVars, callVars, allStops, modalVars, stopVars,
                    selectedTrainLines, timers, initialRun, predVars, updateTime,
                    weatherVars, mapVars, vehVars, plotVars >>

\* The fetch of /train-routes.json fails: the catch logs, the cache stays.
StopsLoadFailed ==
    /\ pagePhase = "loadingStops"
    /\ InitializePageRest(allStops)

\* ------------------------------------------- server: /api/predictions

\* req.query.inbound || '17109': an absent and an empty parameter are falsy.
QueryOr(value, fallback) == IF value = << >> THEN fallback ELSE value

\* How one call of getStopPredictions ends: axios rejects and the error is
\* rethrown ("failed"), or response.data is returned: an object with a
\* ServiceDelivery ("delivery"), an object or a text without one
\* ("noDelivery"), or null ("null").
UpstreamOutcomes == { "failed", "delivery", "noDelivery", "null" }

\* A handler that awaits the inbound call before it makes the outbound one.
PredictionsHandlerSequential(inbound, outbound) ==
    [ stopId |-> [ inbound |-> QueryOr(inbound, S17109),
                   outbound |-> QueryOr(outbound, S16503) ],
      upstream |-> [ d \in Directions |->
                       IF d = "inbound" THEN "pending" ELSE "notIssued" ],
      responses |-> << >> ]

\* The handler up to its await: the stop ids are read from the query and
\* both calls of getStopPredictions are made, each up to its axios.get.
PredictionsHandler(inbound, outbound) ==
    [ stopId |-> [ inbound |-> QueryOr(inbound, S17109),
                   outbound |-> QueryOr(outbound, S16503) ],
      upstream |-> [ d \in Directions |-> "pending" ],
      responses |-> << >> ]

\* res.status(500).json({ error: 'Failed to fetch predictions' })
PredictionsFailed ==
    [ status |-> 500, body |-> [ error |-> "Failed to fetch predictions" ] ]

\* One member of the response: the stop's name and the upstream delivery.
ResponseEntry(stopId, outcome) ==
    [ stopName |-> JsonMember(StopNameOf(stopId)),
      ServiceDelivery |-> IF outcome = "delivery" THEN "delivery" ELSE "undefined" ]

\* res.json(response)
PredictionsResponse(stopId, upstream) ==
    [ status |-> 200,
      body |-> [ d \in Directions |-> ResponseEntry(stopId[d], upstream[d]) ] ]

\* A handler that waits for both calls and answers with the members of the
\* calls that succeeded.
PredictionsSendsSettled(handler) ==
    IF handler.responses # << >> THEN << >>
    ELSE IF \E d \in Directions : handler.upstream[d] = "pending" THEN << >>
    ELSE IF \A d \in Directions : handler.upstream[d] \in { "failed", "null" }
    THEN << PredictionsFailed >>
    ELSE << [ status |-> 200,
              body |-> [ d \in { e \in Directions :
                                   handler.upstream[e] \notin { "failed", "null" } }
                         |-> ResponseEntry(handler.stopId[d], handler.upstream[d]) ] ] >>

\* What the handler sends once a call has settled.  Promise.all rejects with
\* the first rejection and fulfils with the last fulfilment; it settles once.
\* Reading ServiceDelivery of null throws into the same catch.
PredictionsSends(handler) ==
    IF handler.responses # << >> THEN << >>
    ELSE IF \E d \in Directions : handler.upstream[d] = "failed"
    THEN << PredictionsFailed >>
    ELSE IF \E d \in Directions : handler.upstream[d] = "pending" THEN << >>
    ELSE IF \E d \in Directions : handler.upstream[d] = "null"
    THEN << PredictionsFailed >>
    ELSE << PredictionsResponse(handler.stopId, handler.upstream) >>

\* The queries of the requests the server receives: without stop ids, with
\* the stop ids the page has committed, or with ids that name members STOPS
\* inherits.
Queries ==
    { [ inbound |-> << >>, outbound |-> << >> ],
      [ inbound |-> S13911, outbound |-> S15780 ],
      [ inbound |-> InheritedSpelling["constructor"], outbound |-> SProto ] }

\* GET /api/predictions arrives.
PredictionsRequest(inbound, outbound) ==
    /\ Len(predHandlers) < MaxPredictionsRequests
    /\ predHandlers' = Append(predHandlers, PredictionsHandler(inbound, outbound))
    /\ UNCHANGED << protoLoad, FeedMessage, vehHandlers, callVars, clientVars >>

\* The upstream call of handler h for direction d settles; the handler runs
\* on as far as Promise.all lets it.
UpstreamPredictionsSettle(h, d, outcome) ==
    /\ h \in DOMAIN predHandlers
    /\ predHandlers[h].upstream[d] = "pending"
    /\ predHandlers' =
         [ predHandlers EXCEPT ![h] =
             [ @ EXCEPT !.upstream[d] = outcome,
                        !.responses = @ \o PredictionsSends(
                            [ predHandlers[h] EXCEPT !.upstream[d] = outcome ]) ] ]
    /\ UNCHANGED << protoLoad, FeedMessage, vehHandlers, callVars, clientVars >>

\* ---------------------------------------------- server: /api/vehicles

\* One entity of the decoded feed.  vehicle, trip: whether entity.vehicle
\* and entity.vehicle.trip are there; id: vehicle.vehicle?.id; currentStatus:
\* a number, or NoStatus where the member is missing.
Entity(vehicle, trip, routeId, id, stopId, currentStatus) ==
    [ vehicle |-> vehicle, trip |-> trip, routeId |-> routeId, id |-> id,
      stopId |-> stopId, currentStatus |-> currentStatus ]

\* ['J', 'K', 'L', 'M', 'N', 'T'].includes(entity.vehicle.trip.routeId)
GatewayLines == { "J", "K", "L", "M", "N", "T" }

\* A filter that takes every entity with a vehicle and a trip.
IsTrainOfAnyRoute(entity) == entity.vehicle /\ entity.trip

\* The callback of feed.entity.filter
IsTrain(entity) ==
    entity.vehicle /\ entity.trip /\ entity.routeId \in GatewayLines

Status(value) == [ defined |-> TRUE, value |-> value ]

NoStatus == [ defined |-> FALSE, value |-> 0 ]

\* A switch whose default label is that of case 2.
StatusLabelDefaultInTransit(currentStatus) ==
    IF ~currentStatus.defined THEN "In Transit"
    ELSE CASE currentStatus.value = 0 -> "Incoming"
           [] currentStatus.value = 1 -> "Stopped"
           [] OTHER -> "In Transit"

\* The switch on vehicle.currentStatus
StatusLabel(currentStatus) ==
    IF ~currentStatus.defined THEN "Unknown"
    ELSE CASE currentStatus.value = 0 -> "Incoming"
           [] currentStatus.value = 1 -> "Stopped"
           [] currentStatus.value = 2 -> "In Transit"
           [] OTHER -> "Unknown"

\* `${...}` of an optional text, and its use as a property key
Interpolate(t) == IF t.defined THEN t.tokens ELSE << "undefined" >>

\* getStopName(stopId): STOPS[stopId] || 'Unknown Stop'
getStopName(stopId) ==
    IF StopsGet(Interpolate(stopId)).kind = "undefined" THEN JsText(<< "Unknown Stop" >>)
    ELSE StopsGet(Interpolate(stopId))

\* The vehicle record of one retained entity.
Prettify(entity) ==
    [ trainId |-> << entity.routeId >> \o Interpolate(entity.id),
      routeId |-> entity.routeId,
      stopId |-> entity.stopId,
      currentStatus |-> entity.currentStatus,
      readableStatus |-> << StatusLabel(entity.currentStatus), " at " >>
                           \o TemplateText(getStopName(entity.stopId)) ]

\* feed.entity.filter(...).map(...), the forEach that adds readableStatus
RECURSIVE GatewayVehicles(_)
GatewayVehicles(entities) ==
    IF entities = << >> THEN << >>
    ELSE (IF IsTrain(Head(entities)) THEN << Prettify(Head(entities)) >> ELSE << >>)
         \o GatewayVehicles(Tail(entities))

\* The feeds the upstream answers with.
EntityK ==
    Entity(TRUE, TRUE, "K", Text(<< "2", "0", "1" >>), Text(S17109), Status(1))

EntityL == Entity(TRUE, TRUE, "L", Undefined, Undefined, NoStatus)

EntityX == Entity(TRUE, TRUE, "X", Text(<< "9" >>), Undefined, Status(2))

EntityNoTrip == Entity(TRUE, FALSE, "K", Text(<< "5" >>), Undefined, Status(0))

EntityAlert == Entity(FALSE, FALSE, "", Undefined, Undefined, NoStatus)

EntityJ == Entity(TRUE, TRUE, "J", Text(<< "3" >>), Text(S16503), Status(0))

EntityM ==
    Entity(TRUE, TRUE, "M", Text(<< "4" >>), Text(InheritedSpelling["constructor"]), Status(2))

EntityN == Entity(TRUE, TRUE, "N", Text(<< "6" >>), Text(SProto), Status(3))

Feeds ==
    { << >>,
      << EntityK, EntityX >>,
      << EntityAlert, EntityNoTrip, EntityL >>,
      << EntityM, EntityJ, EntityN >> }

\* How the upstream call of a vehicles handler ends: axios rejects, the
\* body cannot be decoded, or the body decodes to a feed.
Received(kind, entities) == [ kind |-> kind, entities |-> entities ]

VehiclesOutcomes ==
    { Received("rejected", << >>), Received("undecodable", << >>) }
      \cup { Received("feed", feed) : feed \in Feeds }

\* res.status(500).json({ error: 'Failed to fetch vehicle positions: ' + ... })
VehiclesFailed(message) ==
    [ status |-> 500,
      body |-> [ error |-> << "Failed to fetch vehicle positions: ", message >> ] ]

\* res.json({ vehicles: prettifiedOutput })
VehiclesResponse(vehicles) ==
    [ status |-> 200, body |-> [ vehicles |-> vehicles ] ]

\* A handler that answers with an empty list while the schema is not loaded.
VehiclesHandlerEmptyList(feedMessage) ==
    IF feedMessage = "undefined"
    THEN [ schema |-> feedMessage, upstreamCalls |-> 0,
           received |-> Received("none", << >>),
           responses |-> << VehiclesResponse(<< >>) >> ]
    ELSE [ schema |-> feedMessage, upstreamCalls |-> 1,
           received |-> Received("pending", << >>),
           responses |-> << >> ]

\* The handler up to its await: without the schema it throws into its catch,
\* with the schema it makes its upstream request.
VehiclesHandler(feedMessage) ==
    IF feedMessage = "undefined"
    THEN [ schema |-> feedMessage, upstreamCalls |-> 0,
           received |-> Received("none", << >>),
           responses |-> << VehiclesFailed("Protobuf schema not loaded") >> ]
    ELSE [ schema |-> feedMessage, upstreamCalls |-> 1,
           received |-> Received("pending", << >>),
           responses |-> << >> ]

\* The response of the first handler in the list that answered with vehicles.
RECURSIVE FirstVehiclesResponse(_, _)
FirstVehiclesResponse(handlers, i) ==
    IF i > Len(handlers) THEN << >>
    ELSE IF handlers[i].responses # << >> /\ handlers[i].responses[1].status = 200
    THEN handlers[i].responses
    ELSE FirstVehiclesResponse(handlers, i + 1)

\* A handler that answers with an earlier handler's vehicles when there are.
VehiclesResultCached(handlers, outcome) ==
    IF FirstVehiclesResponse(handlers, 1) # << >>
    THEN FirstVehiclesResponse(handlers, 1)[1]
    ELSE IF outcome.kind = "feed"
    THEN VehiclesResponse(GatewayVehicles(outcome.entities))
    ELSE VehiclesFailed(outcome.kind)

\* The handler after its await: the record list of the feed it received, or
\* the catch with the error's message.
VehiclesResult(handlers, outcome) ==
    IF outcome.kind = "feed"
    THEN VehiclesResponse(GatewayVehicles(outcome.entities))
    ELSE VehiclesFailed(outcome.kind)

\* protobuf.load resolves: FeedMessage is assigned.
ProtoLoaded ==
    /\ protoLoad = "pending"
    /\ protoLoad' = "loaded"
    /\ FeedMessage' = "type"
    /\ UNCHANGED << predHandlers, vehHandlers, callVars, clientVars >>

\* protobuf.load rejects: the catch logs, FeedMessage stays undefined.
ProtoLoadFailed ==
    /\ protoLoad = "pending"
    /\ protoLoad' = "failed"
    /\ UNCHANGED << FeedMessage, predHandlers, vehHandlers, callVars, clientVars >>

\* GET /api/vehicles arrives.
VehiclesRequest ==
    /\ Len(vehHandlers) < MaxVehiclesRequests
    /\ vehHandlers' = Append(vehHandlers, VehiclesHandler(FeedMessage))
    /\ UNCHANGED << protoLoad, FeedMessage, predHandlers, callVars, clientVars >>

\* The upstream request of handler h settles; the handler runs to its end.
UpstreamVehiclesSettle(h, outcome) ==
    /\ h \in DOMAIN vehHandlers
    /\ vehHandlers[h].received.kind = "pending"
    /\ vehHandlers' =
         [ vehHandlers EXCEPT ![h] =
             [ @ EXCEPT !.received = outcome,
                        !.responses = << VehiclesResult(vehHandlers, outcome) >> ] ]
    /\ UNCHANGED << protoLoad, FeedMessage, predHandlers, callVars, clientVars >>

\* ------------------------------------------- a call of extractPredictions

\* The visits of the deliveries that are passed to extractPredictions.
\* Arrivals in 7 and in 2 minutes, and one 2 minutes ago.
VisitIn7 == GoodVisit(420000, << "Embarcadero", " Station" >>, "false")

VisitIn2 == GoodVisit(120000, << "Metro ", "Balboa Park" >>, "false")

VisitPast == GoodVisit(-120000, << "Embarcadero", " Station" >>, "false")

\* An ExpectedArrivalTime that is no parseable time.
VisitInvalidTime ==
    Visit(TRUE, TRUE, "invalid", 0, Dest(<< "Caltrain" >>), Undefined, "false")

\* Visits without ExpectedArrivalTime, without MonitoredCall, without
\* MonitoredVehicleJourney.
VisitNoTime ==
    Visit(TRUE, TRUE, "missing", 0, Dest(<< "Caltrain" >>), Undefined, "false")

VisitNoCall ==
    Visit(TRUE, FALSE, "missing", 0, Undefined, Dest(<< "Caltrain" >>), "false")

VisitNoJourney ==
    Visit(FALSE, FALSE, "missing", 0, Undefined, Undefined, "false")

\* NoDestVisit has an arrival ahead and neither DestinationDisplay nor
\* DestinationName.
Visits ==
    { VisitIn7, VisitIn2, VisitPast, VisitInvalidTime, VisitNoTime, VisitNoCall,
      VisitNoJourney, NoDestVisit }

RECURSIVE VisitLists(_)
VisitLists(n) ==
    IF n = 0 THEN { << >> }
    ELSE VisitLists(n - 1)
           \cup { Append(list, v) : list \in { l \in VisitLists(n - 1) : Len(l) = n - 1 },
                                    v \in Visits }

\* The stop data of the calls: a visit list, no visit container, or a
\* container that is no array.
CallInputs ==
    { StopData(<< >>, "list", visits) : visits \in VisitLists(MaxVisits) }
      \cup { StopData(<< >>, "missing", << >>), StopData(<< >>, "notList", << >>) }

Returned(value) == [ returned |-> TRUE, value |-> value ]

\* extractPredictions(stopData) is called and returns.
CallExtractPredictions ==
    /\ ~callResult.returned
    /\ \E value \in extractPredictions(callStopData) : callResult' = Returned(value)
    /\ UNCHANGED << callStopData, serverVars, clientVars >>

\* The page and the server at their start, with the stop data of one call.
InitCall ==
    /\ ClientInit
    /\ ServerInit
    /\ callStopData \in CallInputs
    /\ callResult = NotCalled

\* Visits around the rounding limits: arrival - now in ms.
RoundingOffsets == { -30001, -30000, -1, 29999, 30000, 89000, 90000 }

RoundingVisits ==
    { GoodVisit(ms, << "Embarcadero", " Station" >>, "false") : ms \in RoundingOffsets }

RECURSIVE RoundingLists(_)
RoundingLists(n) ==
    IF n = 0 THEN { << >> }
    ELSE RoundingLists(n - 1)
           \cup { Append(list, v) : list \in { l \in RoundingLists(n - 1) : Len(l) = n - 1 },
                                    v \in RoundingVisits }

\* The page and the server at their start, with the stop data of one call
\* whose visits arrive around the rounding limits.
InitRounding ==
    /\ ClientInit
    /\ ServerInit
    /\ callStopData \in { StopData(<< >>, "list", visits) : visits \in RoundingLists(MaxVisits) }
    /\ callResult = NotCalled

\* ------------------------------------------------------- specifications

UserSelection ==
    \/ \E type \in Directions : openStopModal(type)
    \/ \E text \in InputTexts : EditInput(text)
    \/ ValidateClick
    \/ SaveClick
    \/ CloseClick

PageStart ==
    \/ DOMContentLoaded
    \/ \E routes \in Datasets : StopsLoaded(routes)
    \/ StopsLoadFailed

\* The page start with the complete dataset, or with the load failing.
PageStartFull == DOMContentLoaded \/ StopsLoaded(DatasetFull) \/ StopsLoadFailed

PredictionsTask ==
    \/ PredictionsTick
    \/ \E i \in 1..MaxInFlight, pin \in PredPayloads, pout \in PredPayloads :
         PredictionsArrive(i, pin, pout)
    \/ \E i \in 1..MaxInFlight : PredictionsFailure(i)

WeatherTask == WeatherTick \/ WeatherFailure \/ WeatherSuccess

VehiclesTask ==
    \/ VehiclesTick
    \/ VehiclesFailure
    \/ \E vehicles \in VehicleFeeds : VehiclesArrive(vehicles)

MapTask ==
    \/ ConfigResponse
    \/ MapLoad
    \/ \E line \in ToggledLines : toggleTrainLine(line)
    \/ PlotResponse

PredictionsApi ==
    \/ \E query \in Queries : PredictionsRequest(query.inbound, query.outbound)
    \/ \E h \in 1..MaxPredictionsRequests, d \in Directions,
          outcome \in UpstreamOutcomes :
         UpstreamPredictionsSettle(h, d, outcome)

VehiclesApi ==
    \/ ProtoLoaded
    \/ ProtoLoadFailed
    \/ VehiclesRequest
    \/ \E h \in 1..MaxVehiclesRequests, outcome \in VehiclesOutcomes :
         UpstreamVehiclesSettle(h, outcome)

\* Every event of the page and of the server.
Next ==
    \/ PageStart
    \/ UserSelection
    \/ SaveWhileClosed
    \/ PredictionsTask
    \/ WeatherTask
    \/ VehiclesTask
    \/ MapTask
    \/ ClockTick
    \/ PredictionsApi
    \/ VehiclesApi

Spec == Init /\ [][Next]_vars

\* The stop selection and the predictions it refetches.
NextSelection == PageStart \/ UserSelection \/ PredictionsTask

SpecSelection == Init /\ [][NextSelection]_vars

\* The vehicle markers: the map, the line filter and the vehicles polls.
NextVehicles == PageStart \/ VehiclesTask \/ MapTask

SpecVehicles == Init /\ [][NextVehicles]_vars

\* The four polling tasks without user input.
NextSync ==
    \/ ClockTick
    \/ PageStartFull
    \/ PredictionsTask
    \/ WeatherTask
    \/ VehiclesTask
    \/ ConfigResponse
    \/ MapLoad

SpecSync == Init /\ [][NextSync]_vars

\* The page start, the user's events and the ticks of the four timers,
\* while the requests they send are outstanding.
NextEvents ==
    \/ PageStart
    \/ UserSelection
    \/ \E line \in ToggledLines : toggleTrainLine(line)
    \/ PredictionsTick
    \/ WeatherTick
    \/ VehiclesTick
    \/ ClockTick

SpecEvents == Init /\ [][NextEvents]_vars

\* The stop selection with save events that arrive while the modal is
\* closed.
NextClosedSave ==
    \/ PageStart
    \/ UserSelection
    \/ SaveWhileClosed
    \/ PredictionsTick
    \/ \E i \in 1..MaxInFlight : PredictionsFailure(i)

SpecClosedSave == Init /\ [][NextClosedSave]_vars

\* The server's predictions endpoint.
SpecPredictionsApi == Init /\ [][PredictionsApi]_vars

\* The server's schema load and its vehicles endpoint.
SpecVehiclesApi == Init /\ [][VehiclesApi]_vars

\* One call of extractPredictions, for each stop data.
SpecCall == InitCall /\ [][CallExtractPredictions]_vars

\* One call of extractPredictions, for visits around the rounding limits.
SpecRounding == InitRounding /\ [][CallExtractPredictions]_vars

\* --------------------------------------------------------------- claims

Other(d) == IF d = "inbound" THEN "outbound" ELSE "inbound"

\* C1: each committed stop id is its configured default or a key of the stop
\* cache; the cache only gains keys, so a key at the commit is a key now.
C1_CommittedStopsCached ==
    \A d \in Directions :
        currentStops[d] = defaultStops[d] \/ MapHas(allStops, currentStops[d])

\* A stop was committed from the modal while the other direction keeps a
\* default that the loaded cache does not hold.
C1_Witness ==
    /\ currentStops["inbound"] = S13911
    /\ stopLabel["inbound"].written
    /\ currentStops["outbound"] = defaultStops["outbound"]
    /\ ~MapHas(allStops, defaultStops["outbound"])

\* C2: once every predictions response has arrived, predictions that are
\* displayed are those of the committed stop ids, whatever the arrival order.
C2_LaterRequestWins ==
    ( /\ predInFlight = << >>
      /\ \A d \in Directions : predDisplay[d].kind \in { "predictions", "noPredictions" } )
    => \A d \in Directions : predDisplay[d].stopName = ShownStopName(currentStops[d])

\* A predictions response whose processing throws.
ArrivalThrows(p) == \E preds \in PayloadPredictions[p] : DisplayThrows(preds)

ThrowingPayloads == { p \in PredPayloads : ArrivalThrows(p) }

PredictionsFetchFails ==
    /\ Len(predInFlight') < Len(predInFlight)
    /\ \/ \E i \in 1..MaxInFlight : PredictionsFailure(i)
       \/ \E i \in 1..MaxInFlight, pin \in PredPayloads, pout \in PredPayloads :
            /\ pin \in ThrowingPayloads \/ pout \in ThrowingPayloads
            /\ PredictionsArrive(i, pin, pout)

\* C3: a failed predictions fetch (transport, status, or a throw while the
\* response is processed) leaves the error placeholder in both regions.
C3_FailureShowsPlaceholder ==
    [][ PredictionsFetchFails => \A d \in Directions : predDisplay'[d] = RegionError ]_vars

\* Both regions show the placeholder after an earlier response was rendered.
C3_Witness ==
    /\ \A d \in Directions : predDisplay[d] = RegionError
    /\ updateTime = "time"

\* C4: a failed vehicles fetch leaves no marker of an earlier poll displayed.
C4_FailedPollClearsMarkers ==
    [][ VehiclesFailure => markers' = << >> ]_vars

\* C5: a successful vehicles poll processed with the map loaded leaves
\* exactly the markers of its vehicles on enabled lines, none for an empty
\* poll.
C5_PollReplacesMarkers ==
    [][ \A vehicles \in VehicleFeeds :
          (mapLoaded /\ VehiclesArrive(vehicles))
          => markers' = SelectVehicles(selectedTrainLines, vehicles) ]_vars

FailureOf(task) ==
    CASE task = "predictions" -> PredictionsFetchFails
      [] task = "weather" -> WeatherFailure
      [] task = "vehicles" -> VehiclesFailure
      [] OTHER -> FALSE

\* The requests of a task that are outstanding.
Pending(task, preds, weather, vehicles) ==
    CASE task = "predictions" -> Len(preds)
      [] task = "weather" -> weather
      [] task = "vehicles" -> vehicles
      [] OTHER -> 0

\* C6: the four timers stay armed, and a failed fetch of a task settles that
\* one request only: every other request of the task and of the other tasks
\* stays outstanding, and the other tasks' regions keep what they show.
C6_FailureIsolated ==
    /\ [](timers = Tasks)
    /\ [][ \A task \in Tasks :
             FailureOf(task) =>
               /\ timers' = Tasks
               /\ \A t \in Tasks :
                    Pending(t, predInFlight', weatherInFlight', vehInFlight')
                      = Pending(t, predInFlight, weatherInFlight, vehInFlight)
                        - (IF t = task THEN 1 ELSE 0)
               /\ task # "predictions" => UNCHANGED << predDisplay, updateTime >>
               /\ task # "weather" => UNCHANGED weatherDisplay
               /\ task # "vehicles" => UNCHANGED markers ]_vars

\* A predictions fetch has failed while a second predictions request, a
\* weather request and a vehicles request are still outstanding.
C6_Witness ==
    /\ \A d \in Directions : predDisplay[d] = RegionError
    /\ Len(predInFlight) > 0
    /\ weatherInFlight > 0
    /\ vehInFlight > 0
    /\ timers = Tasks

TickOf(task) ==
    CASE task = "predictions" -> PredictionsTick
      [] task = "weather" -> WeatherTick
      [] task = "vehicles" -> VehiclesTick
      [] task = "clock" -> ClockTick

\* C7: a periodic tick of a task fires only after the page start has
\* executed the task once.
C7_InitialRunBeforeTick ==
    [][ \A task \in Tasks : TickOf(task) => task \in initialRun ]_vars

\* C8: a Save click on a cached id commits it for the modal's direction,
\* closes the modal and issues one predictions request carrying the new id
\* and the other direction's unchanged id.
C8_SaveCommitsAndRefetches ==
    [][ (SaveClick /\ MapHas(allStops, Trim(stopInput))) =>
          /\ currentStops'[currentStopType] = Trim(stopInput)
          /\ currentStops'[Other(currentStopType)] = currentStops[Other(currentStopType)]
          /\ modalDisplay' = "none"
          /\ stopInput' = << >>
          /\ currentStopType' = "null"
          /\ Len(predInFlight') = Len(predInFlight) + 1
          /\ SubSeq(predInFlight', 1, Len(predInFlight)) = predInFlight
          /\ predInFlight'[Len(predInFlight')][currentStopType] = Trim(stopInput)
          /\ predInFlight'[Len(predInFlight')][Other(currentStopType)]
               = currentStops[Other(currentStopType)] ]_vars

\* The modal is back in Idle after a save of a padded input, with the
\* request for the new id outstanding.
C8_Witness ==
    /\ currentStops["outbound"] = S13911
    /\ currentStops["inbound"] = defaultStops["inbound"]
    /\ modalDisplay = "none"
    /\ currentStopType = "null"
    /\ predInFlight # << >>
    /\ predInFlight[Len(predInFlight)] = [ inbound |-> S15779, outbound |-> S13911 ]

\* C9: a close returns the modal to Idle, commits nothing and fetches nothing.
C9_CloseDiscards ==
    [][ CloseClick =>
          /\ modalDisplay' = "none"
          /\ stopInput' = << >>
          /\ currentStopType' = "null"
          /\ UNCHANGED << currentStops, stopLabel, stopLocation, predInFlight >> ]_vars

\* The modal was closed after a successful validation, nothing committed.
C9_Witness ==
    /\ modalDisplay = "none"
    /\ currentStopType = "null"
    /\ validationMsg.className = "validation-message success"
    /\ \A d \in Directions : ~stopLabel[d].written

\* C10: a commit that changes a stop commits the id whose details the last
\* Validate click of the session accepted and displays.
C10_SaveCommitsValidatedId ==
    [][ \A d \in Directions :
          currentStops'[d] # currentStops[d]
          => validationMsg = MsgValid(MapGet(allStops, currentStops'[d])) ]_vars

\* C11: a Validate click shows the stop's details and enables the save
\* button exactly when the trimmed input is a key of the stop cache; otherwise
\* it shows the rejection and disables the save button, also one that an
\* earlier validation had enabled.
C11_ValidateDecides ==
    [][ ValidateClick =>
          IF MapHas(allStops, Trim(stopInput))
          THEN /\ validationMsg' = MsgValid(allStops[Trim(stopInput)])
               /\ ~saveBtnDisabled'
          ELSE /\ validationMsg' = MsgInvalid
               /\ saveBtnDisabled' ]_vars

\* With the cache loaded, a validation of an id that is no key was rejected.
C11_Witness ==
    /\ modalDisplay = "block"
    /\ MapHas(allStops, S13911)
    /\ stopInput = << "1", "3", " ", "9" >>
    /\ validationMsg = MsgInvalid
    /\ saveBtnDisabled

\* C12: opening the modal for a direction pre-fills the input with the
\* direction's committed stop id, disables the save button and clears the
\* validation message, whatever an earlier session left.
C12_OpenResets ==
    [][ \A type \in Directions :
          openStopModal(type) =>
            /\ modalDisplay' = "block"
            /\ currentStopType' = type
            /\ stopInput' = currentStops[type]
            /\ saveBtnDisabled'
            /\ validationMsg' = MsgCleared ]_vars

\* The modal is open again for the direction whose stop an earlier session
\* saved.
C12_Witness ==
    /\ modalDisplay = "block"
    /\ currentStopType = "inbound"
    /\ stopLabel["inbound"].written
    /\ currentStops["inbound"] = S13911
    /\ stopInput = S13911
    /\ saveBtnDisabled
    /\ validationMsg = MsgCleared

\* C13: a step that changes a committed stop is a save, and it changes the
\* stop of the direction the modal was opened for and no other.
C13_SaveChangesOwnDirection ==
    [][ currentStops' # currentStops =>
          /\ SaveClick
          /\ DOMAIN currentStops' = Directions
          /\ \A d \in Directions :
               d # currentStopType => currentStops'[d] = currentStops[d] ]_vars

\* Both directions were saved, each in a session of its own.
C13_Witness ==
    /\ stopLabel["inbound"].written
    /\ stopLabel["outbound"].written
    /\ currentStops["inbound"] = S13911
    /\ currentStops["outbound"] = S15780

\* C14: the lines marked enabled are among J, K, L, M, N, T.
C14_EnabledLinesKnown ==
    { line \in DOMAIN selectedTrainLines : selectedTrainLines[line] = "true" }
      \subseteq { "J", "K", "L", "M", "N", "T" }

\* Line K has been toggled off, line L is enabled.
C14_Witness ==
    /\ pagePhase = "done"
    /\ SelectedGet(selectedTrainLines, "K") = "false"
    /\ SelectedGet(selectedTrainLines, "L") = "true"

\* C15: a predictions handler sends at most one response; once one of its
\* upstream calls has failed that response is the failure response, and
\* every success response has a member for both directions.
C15_NoPartialPredictions ==
    \A h \in DOMAIN predHandlers :
        /\ Len(predHandlers[h].responses) <= 1
        /\ (\E d \in Directions : predHandlers[h].upstream[d] = "failed")
             => predHandlers[h].responses = << PredictionsFailed >>
        /\ \A r \in DOMAIN predHandlers[h].responses :
             predHandlers[h].responses[r].status = 200
               => DOMAIN predHandlers[h].responses[r].body = Directions

\* The inbound call failed, the outbound call delivered, the handler answered
\* with the failure.
C15_Witness ==
    \E h \in DOMAIN predHandlers :
        /\ predHandlers[h].upstream["inbound"] = "failed"
        /\ predHandlers[h].upstream["outbound"] = "delivery"
        /\ predHandlers[h].responses = << PredictionsFailed >>

\* C16: a vehicles request handled without the schema made no upstream
\* request and was answered with the failure response, never with a vehicle
\* list; requests that arrive later are handled.
C16_SchemaNotLoadedFails ==
    \A h \in DOMAIN vehHandlers :
        vehHandlers[h].schema = "undefined" =>
          /\ vehHandlers[h].upstreamCalls = 0
          /\ vehHandlers[h].received.kind = "none"
          /\ Len(vehHandlers[h].responses) = 1
          /\ vehHandlers[h].responses[1].status = 500
          /\ DOMAIN vehHandlers[h].responses[1].body = { "error" }

\* A request was refused while the schema load was pending; a later request
\* was answered with vehicles.
C16_Witness ==
    /\ Len(vehHandlers) >= 2
    /\ vehHandlers[1].schema = "undefined"
    /\ vehHandlers[1].responses = << VehiclesFailed("Protobuf schema not loaded") >>
    /\ vehHandlers[2].responses # << >>
    /\ vehHandlers[2].responses[1].status = 200
    /\ vehHandlers[2].responses[1].body.vehicles # << >>

\* C17: a vehicles handler that has the schema makes one upstream request;
\* a failed request is answered with the failure and not repeated; a feed is
\* answered with the vehicles of that feed and of no earlier one.
C17_OneFreshUpstreamRequest ==
    \A h \in DOMAIN vehHandlers :
        vehHandlers[h].schema = "type" =>
          /\ vehHandlers[h].upstreamCalls = 1
          /\ vehHandlers[h].received.kind = "pending"
               => vehHandlers[h].responses = << >>
          /\ vehHandlers[h].received.kind \in { "rejected", "undecodable" }
               => /\ Len(vehHandlers[h].responses) = 1
                  /\ vehHandlers[h].responses[1].status = 500
          /\ vehHandlers[h].received.kind = "feed"
               => vehHandlers[h].responses =
                    << VehiclesResponse(GatewayVehicles(vehHandlers[h].received.entities)) >>

\* After a request that was answered with vehicles, the upstream request of
\* the next one was rejected and the failure was sent.
C17_Witness ==
    /\ Len(vehHandlers) >= 2
    /\ vehHandlers[1].responses # << >>
    /\ vehHandlers[1].responses[1].status = 200
    /\ vehHandlers[1].responses[1].body.vehicles # << >>
    /\ vehHandlers[2].upstreamCalls = 1
    /\ vehHandlers[2].received.kind = "rejected"
    /\ vehHandlers[2].responses = << VehiclesFailed("rejected") >>

\* The payload of direction d in an arrival of payloads pin and pout.
PayloadOf(d, pin, pout) == IF d = "inbound" THEN pin ELSE pout

\* C18: when a predictions response arrives in which the delivery of a stop
\* lacks its top-level structure, that stop's region shows the error
\* placeholder.
C18_MissingStructureShowsError ==
    [][ \A i \in 1..MaxInFlight, pin \in PredPayloads, pout \in PredPayloads :
          ( /\ Len(predInFlight') < Len(predInFlight)
            /\ PredictionsArrive(i, pin, pout) )
          => \A d \in Directions :
               PayloadOf(d, pin, pout).container = "missing"
                 => predDisplay'[d] = RegionError ]_vars

\* A visit with a journey, a call, an expected arrival and a label.
WellFormed(v) ==
    /\ v.journey
    /\ v.call
    /\ v.etaKind = "time"
    /\ Truthy(v.destDisplay) \/ Truthy(v.destName)

\* What each payload's well-formed visits alone are rendered as.
WellFormedPredictions ==
    [ p \in PredPayloads |->
        extractPredictions(StopData(<< >>, p.container, SelectSeq(p.visits, WellFormed))) ]

\* C19: when a predictions response arrives whose deliveries are visit lists,
\* each region shows the predictions of the well-formed visits of its list; a
\* malformed visit among them does not bring the error placeholder.
C19_MalformedVisitDropped ==
    [][ \A i \in 1..MaxInFlight, pin \in PredPayloads, pout \in PredPayloads :
          ( /\ Len(predInFlight') < Len(predInFlight)
            /\ pin.container = "list"
            /\ pout.container = "list"
            /\ PredictionsArrive(i, pin, pout) )
          => \A d \in Directions :
               \E preds \in WellFormedPredictions[PayloadOf(d, pin, pout)] :
                 predDisplay'[d] =
                   RegionOf(ShownStopName(predInFlight[i][d]), preds) ]_vars

\* a.minutes < b.minutes; a comparison with NaN is false.
Less(a, b) == ~a.isNaN /\ ~b.isNaN /\ a.minutes < b.minutes

\* C20: in what extractPredictions returns, no prediction comes before one
\* with fewer minutes.
C20_SortedByMinutes ==
    callResult.returned =>
      \A i, j \in DOMAIN callResult.value :
        i < j => ~Less(callResult.value[j], callResult.value[i])

\* C21: the minutes of every prediction that extractPredictions returns is
\* a number, and not below zero.
C21_MinutesNonNegative ==
    callResult.returned =>
      \A i \in DOMAIN callResult.value :
        ~callResult.value[i].isNaN /\ callResult.value[i].minutes >= 0

\* A visit that extractPredictions discards for what it lacks: the journey,
\* the call or the expected arrival.
LacksArrival(v) == ~v.journey \/ ~v.call \/ v.etaKind = "missing"

\* The stop data has no visit list, or a list of which every visit is
\* malformed: it lacks the journey, the call, a parseable expected arrival
\* or the destination label.
NothingToExtract(data) ==
    \/ data.container # "list"
    \/ \A i \in DOMAIN data.visits : ~WellFormed(data.visits[i])

\* C22: for an empty visit list, a missing structure, a container that is no
\* list and a list of visits that are all malformed, the call has an
\* outcome, and it is the empty array.
C22_EmptyNeverThrows ==
    NothingToExtract(callStopData) =>
      /\ extractPredictions(callStopData) # { }
      /\ callResult.returned => callResult.value = << >>

\* A visit with journey, call and an expected arrival that lies ahead.
ArrivesAhead(v) == v.journey /\ v.call /\ v.etaKind = "time" /\ v.etaMs > 0

\* The visits at the indices of a list, as a set.
VisitsOf(list) == { list[i] : i \in DOMAIN list }

\* C23: no prediction is made of a visit without arrival time, one is made of
\* every visit with an arrival ahead, with its minutes; the visits in 2 and
\* in 7 minutes and one without arrival time give the minutes 2, 7.
C23_KeepsFutureDropsUntimed ==
    callResult.returned =>
      /\ Len(callResult.value)
           <= Cardinality({ i \in DOMAIN callStopData.visits :
                              ~LacksArrival(callStopData.visits[i]) })
      /\ Len(callResult.value)
           >= Cardinality({ i \in DOMAIN callStopData.visits :
                              ArrivesAhead(callStopData.visits[i]) })
      /\ \A i \in DOMAIN callStopData.visits :
           ArrivesAhead(callStopData.visits[i]) =>
             \E k \in DOMAIN callResult.value :
               /\ ~callResult.value[k].isNaN
               /\ callResult.value[k].minutes * MsPerMinute
                    = callStopData.visits[i].etaMs
               /\ callResult.value[k].destination = callStopData.visits[i].destDisplay
      /\ ( /\ Len(callStopData.visits) = 3
           /\ VisitsOf(callStopData.visits) = { VisitIn2, VisitIn7, VisitNoTime } )
         => [ k \in DOMAIN callResult.value |-> callResult.value[k].minutes ]
              = << 2, 7 >>

\* The call returned the minutes 2, 7 for the visits in 7 minutes, without
\* arrival time, and in 2 minutes.
C23_Witness ==
    /\ callStopData.visits = << VisitIn7, VisitNoTime, VisitIn2 >>
    /\ callResult.returned
    /\ Len(callResult.value) = 2
    /\ callResult.value[1].minutes = 2
    /\ callResult.value[2].minutes = 7

\* An entity with a vehicle that has a trip on one of the six lines.
OnKnownLine(entity) ==
    entity.vehicle /\ entity.trip /\ entity.routeId \in { "J", "K", "L", "M", "N", "T" }

\* The vehicles of the response that answered a feed.
VehiclesSent(handler) == handler.responses[1].body.vehicles

\* C24: the vehicles answered for a feed are those of its entities that have
\* a vehicle with a trip on one of J, K, L, M, N, T, one record each, in the
\* order of the feed; of a K and an X entity only the K vehicle is answered.
C24_GatewayFiltersLines ==
    \A h \in DOMAIN vehHandlers :
        vehHandlers[h].received.kind = "feed" =>
          LET retained == SelectSeq(vehHandlers[h].received.entities, OnKnownLine)
              sent == VehiclesSent(vehHandlers[h])
          IN /\ Len(sent) = Len(retained)
             /\ \A k \in DOMAIN sent :
                  /\ sent[k].routeId = retained[k].routeId
                  /\ sent[k].trainId
                       = << retained[k].routeId >> \o Interpolate(retained[k].id)
             /\ vehHandlers[h].received.entities = << EntityK, EntityX >>
                  => /\ Len(sent) = 1
                     /\ sent[1].routeId = "K"

\* The feed with a K and an X entity was answered with the K vehicle, the
\* feed with an entity without vehicle and one without trip with the L
\* vehicle.
C24_Witness ==
    \E h, g \in DOMAIN vehHandlers :
        /\ vehHandlers[h].received = Received("feed", << EntityK, EntityX >>)
        /\ Len(VehiclesSent(vehHandlers[h])) = 1
        /\ VehiclesSent(vehHandlers[h])[1].trainId = << "K", "2", "0", "1" >>
        /\ vehHandlers[g].received
             = Received("feed", << EntityAlert, EntityNoTrip, EntityL >>)
        /\ Len(VehiclesSent(vehHandlers[g])) = 1
        /\ VehiclesSent(vehHandlers[g])[1].routeId = "L"

\* The label the claim gives a status value.
LabelOf(currentStatus) ==
    IF currentStatus = Status(0) THEN "Incoming"
    ELSE IF currentStatus = Status(1) THEN "Stopped"
    ELSE IF currentStatus = Status(2) THEN "In Transit"
    ELSE "Unknown"

\* C25: the readable status of every vehicle answered begins with Incoming
\* for status 0, Stopped for 1, In Transit for 2 and Unknown for any other
\* and for a missing status.
C25_StatusLabels ==
    \A h \in DOMAIN vehHandlers :
        vehHandlers[h].received.kind = "feed" =>
          \A k \in DOMAIN VehiclesSent(vehHandlers[h]) :
            VehiclesSent(vehHandlers[h])[k].readableStatus[1]
              = LabelOf(VehiclesSent(vehHandlers[h])[k].currentStatus)

\* Vehicles with the status 2, 0 and 3 were answered in one response, a
\* vehicle without status in another.
C25_Witness ==
    \E h, g \in DOMAIN vehHandlers :
        /\ vehHandlers[h].received = Received("feed", << EntityM, EntityJ, EntityN >>)
        /\ [ k \in 1..3 |-> VehiclesSent(vehHandlers[h])[k].readableStatus[1] ]
             = << "In Transit", "Incoming", "Unknown" >>
        /\ vehHandlers[g].received.kind = "feed"
        /\ \E k \in DOMAIN VehiclesSent(vehHandlers[g]) :
             /\ VehiclesSent(vehHandlers[g])[k].currentStatus = NoStatus
             /\ VehiclesSent(vehHandlers[g])[k].readableStatus[1] = "Unknown"

\* The line of a vehicle is one of the six and its entry is true.
LineEnabled(selected, vehicle) ==
    /\ vehicle.trainId # << >>
    /\ Head(vehicle.trainId) \in { "J", "K", "L", "M", "N", "T" }
    /\ Head(vehicle.trainId) \in DOMAIN selected
    /\ selected[Head(vehicle.trainId)] = "true"

\* The vehicles of a list whose line is enabled, in the order of the list.
EnabledOf(selected, vehicles) ==
    LET enabled(vehicle) == LineEnabled(selected, vehicle)
    IN SelectSeq(vehicles, enabled)

\* C26: when a non-empty vehicle list arrives with the map loaded, the
\* markers afterwards are those of the vehicles of the list whose line is
\* enabled and no others, whatever markers there were before; with K
\* enabled, L disabled and vehicles on K and L only the K marker is left.
C26_MarkersFullReplace ==
    [][\A vehicles \in VehicleFeeds :
         (VehiclesArrive(vehicles) /\ mapLoaded /\ Len(vehicles) > 0) =>
            /\ markers' = EnabledOf(selectedTrainLines, vehicles)
            /\ ( /\ vehicles = << VehK, VehL >>
                 /\ SelectedGet(selectedTrainLines, "K") = "true"
                 /\ SelectedGet(selectedTrainLines, "L") = "false" )
                 => markers' = << VehK >>]_vars

\* With K enabled and L disabled the K marker is the only marker, no
\* vehicles fetch is outstanding.
C26_Witness ==
    /\ mapLoaded
    /\ SelectedGet(selectedTrainLines, "K") = "true"
    /\ SelectedGet(selectedTrainLines, "L") = "false"
    /\ markers = << VehK >>
    /\ vehInFlight = 0

\* The places of a dataset at which a stop is listed.
Listings(routes) ==
    { << r, k >> \in (DOMAIN routes) \X (1..2) : k \in DOMAIN routes[r].stops }

\* The stop ids a dataset contains.
IdsOf(routes) == { routes[p[1]].stops[p[2]].id : p \in Listings(routes) }

\* Every route of the dataset has a list of stops.
EveryRouteListsStops(routes) == \A r \in DOMAIN routes : routes[r].stopsIsArray

\* The ids looked up: those of the datasets and one that none contains.
LookedUp == { S15779, S15780, S13911, S99999, S17109 }

\* C27: once a dataset whose routes all list their stops is loaded,
\* validateStop answers an id of the dataset with isValid true and a name,
\* line and coordinates the dataset lists for the id, and an id absent from
\* the dataset with isValid false and no details.
C27_LookupMatchesDataset ==
    [][\A routes \in Datasets :
         (StopsLoaded(routes) /\ EveryRouteListsStops(routes)) =>
            \A id \in LookedUp :
               LET answer == validateStop(allStops', id)
               IN IF id \in IdsOf(routes)
                  THEN /\ answer.isValid
                       /\ \E p \in Listings(routes) :
                            /\ routes[p[1]].stops[p[2]].id = id
                            /\ answer.details.name = routes[p[1]].stops[p[2]].name
                            /\ answer.details.line = routes[p[1]].line
                            /\ answer.details.lat = routes[p[1]].stops[p[2]].lat
                            /\ answer.details.long = routes[p[1]].stops[p[2]].long
                  ELSE /\ ~answer.isValid
                       /\ answer.details = NoDetails]_vars

\* C28: once a dataset whose routes all list their stops is loaded, the
\* lookup of every stop id the dataset contains succeeds, stops listed on
\* several lines and stops with an empty name included.
C28_RoundTrip ==
    [][\A routes \in Datasets :
         (StopsLoaded(routes) /\ EveryRouteListsStops(routes)) =>
            \A id \in IdsOf(routes) : validateStop(allStops', id).isValid]_vars

\* An upstream call that has been made: outstanding, or ended.
Issued(state) == state \in { "pending", "failed", "delivery", "noDelivery", "null" }

\* C29: a predictions request leaves both upstream calls outstanding at
\* once, before anything is answered, and no handler ever has an inbound
\* call made and an outbound call not made, whether or not the inbound call
\* has ended.
C29_BothUpstreamIssued ==
    [][/\ \A h \in DOMAIN predHandlers' :
            \A d \in Directions : Issued(predHandlers'[h].upstream[d])
       /\ \A query \in Queries :
            PredictionsRequest(query.inbound, query.outbound) =>
               LET handler == predHandlers'[Len(predHandlers')]
               IN /\ handler.upstream["inbound"] = "pending"
                  /\ handler.upstream["outbound"] = "pending"
                  /\ handler.responses = << >>]_vars

\* The outbound call of a handler has ended with a delivery while its
\* inbound call is outstanding, and a later handler has both outstanding.
C29_Witness ==
    /\ Len(predHandlers) = 2
    /\ predHandlers[1].upstream["inbound"] = "pending"
    /\ predHandlers[1].upstream["outbound"] = "delivery"
    /\ predHandlers[1].responses = << >>
    /\ predHandlers[2].upstream = [ d \in Directions |-> "pending" ]

\* The requests of a list without its i-th.
Without(requests, i) ==
    [ k \in 1..(Len(requests) - 1) |-> IF k < i THEN requests[k] ELSE requests[k + 1] ]

\* C30: a predictions tick that fires while requests are outstanding leaves
\* them outstanding and adds its own; a request leaves the outstanding ones
\* only one at a time, on its own response or failure, and then the regions
\* show the stops of that request or the error placeholder, however many
\* requests were issued after it.
C30_NoFetchCancelled ==
    [][/\ PredictionsTick =>
            /\ Len(predInFlight') = Len(predInFlight) + 1
            /\ SubSeq(predInFlight', 1, Len(predInFlight)) = predInFlight
       /\ Len(predInFlight') >= Len(predInFlight) =>
            SubSeq(predInFlight', 1, Len(predInFlight)) = predInFlight
       /\ Len(predInFlight') < Len(predInFlight) =>
            \E i \in DOMAIN predInFlight :
               /\ predInFlight' = Without(predInFlight, i)
               /\ \/ \A d \in Directions : predDisplay'[d] = RegionError
                  \/ \A d \in Directions :
                       /\ predDisplay'[d].kind \in { "predictions", "noPredictions" }
                       /\ predDisplay'[d].stopName = ShownStopName(predInFlight[i][d])]_vars

\* Every request has ended and the inbound region shows predictions of the
\* stop of the earlier request, while the stop committed since, which the
\* later request named, is another.
C30_Witness ==
    /\ predInFlight = << >>
    /\ currentStops["inbound"] = S13911
    /\ stopLabel["inbound"].written
    /\ predDisplay["inbound"].kind = "predictions"
    /\ predDisplay["inbound"].stopName = ShownStopName(S15779)
    /\ predDisplay["outbound"].stopName = ShownStopName(S15780)

\* C31: once loadAllStops has completed no step changes the stop cache:
\* no tick, line toggle, modal opening, validation, save or close adds,
\* removes or changes an entry.
C31_CacheReadOnly ==
    [][pagePhase = "done" => allStops' = allStops]_vars

\* The cache as the full dataset filled it, after a stop was validated and
\* saved from the modal, line L was toggled off and the modal was opened
\* again.
C31_Witness ==
    /\ pagePhase = "done"
    /\ allStops = loadAllStops(EmptyMap, DatasetFull)
    /\ stopLabel["inbound"].written
    /\ currentStops["inbound"] = S13911
    /\ SelectedGet(selectedTrainLines, "L") = "false"
    /\ modalDisplay = "block"
    /\ validationMsg = MsgInvalid

\* C32: whenever no vehicles fetch is outstanding, every marker displayed
\* is of a line that is enabled, whatever the outcome of the fetch a
\* toggle sent.
C32_NoMarkerOfDisabledLine ==
    vehInFlight = 0 =>
        \A i \in DOMAIN markers : LineEnabled(selectedTrainLines, markers[i])

\* No line has been toggled off.
NoLineToggledOff(selected) == \A line \in DOMAIN selected : selected[line] # "false"

\* The vehicles of a list that are on one of the six lines.
OnKnownLines(vehicles) ==
    LET known(vehicle) ==
            /\ vehicle.trainId # << >>
            /\ Head(vehicle.trainId) \in { "J", "K", "L", "M", "N", "T" }
    IN SelectSeq(vehicles, known)

\* C33: while no line has been toggled off, a non-empty vehicles response
\* processed with the map loaded leaves a marker for each of its vehicles
\* on a known line, also when it is processed after DOMContentLoaded and
\* before initializePage has generated the line buttons.
C33_DefaultLinesFromStart ==
    [][\A vehicles \in VehicleFeeds :
         ( /\ pagePhase # "waitingDOM"
           /\ mapLoaded
           /\ Len(vehicles) > 0
           /\ NoLineToggledOff(selectedTrainLines)
           /\ VehiclesArrive(vehicles) )
         => markers' = OnKnownLines(vehicles)]_vars

\* An id that every dataset of the model lists.
InEveryDataset(id) == \A routes \in Datasets : id \in IdsOf(routes)

\* C34: a Validate click on an id the dataset contains is accepted also
\* while loadAllStops has not yet filled the cache: the success message is
\* shown and the save button is enabled.
C34_ValidateBeforeLoad ==
    [][( /\ pagePhase = "loadingStops"
         /\ InEveryDataset(Trim(stopInput))
         /\ ValidateClick )
       => /\ validationMsg'.className = "validation-message success"
          /\ ~saveBtnDisabled']_vars

\* m is the whole minute nearest to ms, the half counted to the minute above.
NearestMinute(ms, m) == m * 60000 - 30000 <= ms /\ ms < m * 60000 + 30000

\* The offsets of the visits of a list, in its order.
OffsetsOf(visits) == [ i \in DOMAIN visits |-> visits[i].etaMs ]

\* The minutes of the predictions of a result, in its order.
MinutesOf(value) == [ i \in DOMAIN value |-> value[i].minutes ]

\* C35: the visits kept are those at most 30 s in the past, and as many
\* predictions have m minutes as visits of the list have m for their
\* nearest whole minute, never below zero; a visit 30 s in the past gives 0 minutes, a visit
\* 30.001 s in the past is discarded, a visit 89 s ahead gives 1 minute and
\* a visit 90 s ahead 2.
C35_RoundsToNearestMinute ==
    callResult.returned =>
      LET offsets == OffsetsOf(callStopData.visits)
          minutes == MinutesOf(callResult.value)
      IN /\ Len(minutes) = Cardinality({ i \in DOMAIN offsets : offsets[i] >= -30000 })
         /\ \A k \in DOMAIN minutes : minutes[k] \in 0..2
         /\ \A m \in 0..2 :
              Cardinality({ k \in DOMAIN minutes : minutes[k] = m })
                = Cardinality({ i \in DOMAIN offsets : NearestMinute(offsets[i], m) })
         /\ offsets = << -30000 >> => minutes = << 0 >>
         /\ offsets = << -30001 >> => minutes = << >>
         /\ offsets = << 89000 >> => minutes = << 1 >>
         /\ offsets = << 90000 >> => minutes = << 2 >>
         /\ offsets = << 90000, -30001, -30000 >> => minutes = << 0, 2 >>

\* Visits 90 s ahead, 30.001 s and 30 s in the past were extracted: 0 and
\* 2 minutes.
C35_Witness ==
    /\ callResult.returned
    /\ OffsetsOf(callStopData.visits) = << 90000, -30001, -30000 >>
    /\ MinutesOf(callResult.value) = << 0, 2 >>

\* loadAllStops() ends in its catch block: the fetch or the parsing failed,
\* or a route of the dataset has no list of stops.
LoadEndsInCatch ==
    \/ StopsLoadFailed
    \/ \E routes \in Datasets : ~EveryRouteListsStops(routes) /\ StopsLoaded(routes)

\* C36: whenever the load of the dataset ends in the catch block,
\* initializePage completes with the six line buttons generated and the
\* predictions, weather and vehicles fetches sent.  When the load fails as
\* the load of a dataset { routes: [ { line, stops: [...] } ] } can fail,
\* in the fetch or in the parsing of its body, the cache is empty and stays
\* empty, every later Validate click is rejected and currentStops keeps its
\* defaults.
C36_FailedLoadDegrades ==
    [][/\ LoadEndsInCatch =>
            /\ pagePhase' = "done"
            /\ \A line \in { "J", "K", "L", "M", "N", "T" } :
                 SelectedGet(selectedTrainLines', line) = "true"
            /\ Len(predInFlight') = Len(predInFlight) + 1
            /\ predInFlight'[Len(predInFlight')] = defaultStops
            /\ weatherInFlight' = weatherInFlight + 1
            /\ vehInFlight' = vehInFlight + 1
       /\ StopsLoadFailed => allStops' = EmptyMap
       /\ (pagePhase = "done" /\ allStops = EmptyMap) =>
            /\ allStops' = EmptyMap
            /\ currentStops = defaultStops
            /\ currentStops' = defaultStops
            /\ ValidateClick =>
                 /\ validationMsg' = MsgInvalid
                 /\ saveBtnDisabled']_vars

\* After a failed fetch of the dataset the page is initialized, the
\* predictions fetch is out, and a Validate click on a stop id was
\* rejected.
C36_Witness ==
    /\ pagePhase = "done"
    /\ allStops = EmptyMap
    /\ modalDisplay = "block"
    /\ Trim(stopInput) = S13911
    /\ validationMsg = MsgInvalid
    /\ saveBtnDisabled
    /\ currentStops = defaultStops
    /\ predInFlight # << >>
    /\ SelectedGet(selectedTrainLines, "K") = "true"

\* C37: the keys of currentStops are inbound and outbound; whenever the
\* modal is closed the input is empty and no direction is being edited, the
\* empty id is no key of the cache, and a save event that arrives while the
\* modal is closed commits nothing and sends no fetch.
C37_ClosedSaveCommitsNothing ==
    [][/\ DOMAIN currentStops' = { "inbound", "outbound" }
       /\ ~MapHas(allStops', << >>)
       /\ modalDisplay' = "none" => (stopInput' = << >> /\ currentStopType' = "null")
       /\ SaveWhileClosed =>
            UNCHANGED << currentStops, stopLabel, stopLocation, predInFlight >>]_vars

\* The modal is closed after a save from it, with the cache loaded and the
\* save button left enabled: a save event now finds an empty input.
C37_Witness ==
    /\ modalDisplay = "none"
    /\ currentStopType = "null"
    /\ stopInput = << >>
    /\ ~saveBtnDisabled
    /\ stopLabel["outbound"].written
    /\ currentStops["outbound"] = S13911
    /\ MapHas(allStops, S13911)

\* C38: there is no marker while the map has not fired its load event; a
\* vehicles response processed before it changes nothing of the markers;
\* the load event sets mapLoaded and sends a vehicles fetch of its own; once
\* the map's initialization has failed it stays failed, the map is never
\* loaded and there is never a marker.
C38_NoMarkerBeforeMapLoad ==
    [][/\ ~mapLoaded' => markers' = << >>
       /\ \A vehicles \in VehicleFeeds :
            (~mapLoaded /\ VehiclesArrive(vehicles)) =>
               (markers' = markers /\ ~mapLoaded')
       /\ MapLoad => (~mapLoaded /\ mapLoaded' /\ vehInFlight' = vehInFlight + 1)
       /\ mapPhase = "failed" =>
            (mapPhase' = "failed" /\ ~mapLoaded' /\ markers' = << >>)]_vars

\* The map's initialization has failed; the page is initialized with every
\* line enabled, its vehicles fetch has been answered without an error and
\* there is no marker.
C38_Witness ==
    /\ mapPhase = "failed"
    /\ ~mapLoaded
    /\ pagePhase = "done"
    /\ SelectedGet(selectedTrainLines, "K") = "true"
    /\ SelectedGet(selectedTrainLines, "L") = "true"
    /\ vehInFlight = 0
    /\ ~vehErrorLogged
    /\ markers = << >>

====
